---- MODULE Spec2Model ----
(***************************************************************************)
(* Rotation / dynamic-duration scheduler of RugbyLeagueScoreboardPlugin    *)
(* (src/manager.py) over abstract game-state managers (src/sports.py).     *)
(*                                                                         *)
(* A display mode "nrl_recent" is the pair <<"nrl", "recent">>; the string *)
(* tests startswith("nrl_") / endswith("_recent") are the projections [1]  *)
(* and [2].  A manager instance is named by the same pair (self.nrl_recent *)
(* is <<"nrl", "recent">>), and its class name is determined by it.        *)
(* time.time() is the integer variable now.                                *)
(***************************************************************************)
EXTENDS Integers, Sequences, FiniteSets, TLC

\* ------------------------------------------------------------------ bounds
MaxTime == 3
MaxUpdates == 1        \* update() calls of the fan-out specification
FanTicks == 1          \* clock steps of the fan-out specification
UpdateInterval == 30   \* update_interval of every manager
Epoch == 50
GameDur == 1
DisplayDuration == 3

\* ---------------------------------------------------------- program constants
NEW_CYCLE_THRESHOLD == 10
FIRST_SEEN_GAP == 999
DEFAULT_GAME_DURATION == 15
DEFAULT_CYCLE_DURATION == 45
JOIN_TIMEOUT == 25
\* SportsLive.stale_game_timeout, seconds
STALE_GAME_TIMEOUT == 300

None == "None"
NoMgr == <<>>        \* a manager that is None
NoMode == <<>>       \* a display mode that is None
IsSet(x) == x >= 0   \* an optional number; None is written -1

LeagueOrder == <<"nrl", "wnba">>
Leagues == {"nrl", "wnba"}
ModeTypes == {"recent", "upcoming", "live"}
ModeTypeOrder == <<"recent", "upcoming", "live">>
AllModes == Leagues \X ModeTypes
GameIds == {"A", "B", "C"}

VARIABLES
    now,                              \* time.time()
    config,                           \* plugin configuration (fixed after construction)
    games_list,                       \* manager -> list of game records (live_games for live managers)
    current_game_index,               \* manager -> index (0-based)
    current_game,                     \* manager -> game record or None
    last_game_switch,                 \* manager -> timestamp
    game_update_timestamps,           \* live manager -> (game id -> last_seen)
    current_mode_index,               \* rotation cursor (0-based index into modes)
    last_mode_switch,
    dynamic_cycle_seen_modes,
    dynamic_mode_to_manager_key,
    dynamic_manager_progress,         \* manager_key -> set of completed game ids
    dynamic_managers_completed,
    dynamic_cycle_complete,
    single_game_manager_start_times,  \* manager_key -> start time
    game_id_start_times,              \* manager_key -> (game id -> first seen)
    display_mode_to_managers,         \* display_mode -> set of manager keys
    last_display_mode,
    last_display_mode_time,
    sticky_manager_per_mode,          \* display_mode -> manager
    sticky_manager_start_time,
    mode_start_time,
    current_display_league,
    current_display_mode_type,
    last_op,                          \* the public operation just executed, with its result
    threads,                          \* thread id -> state of a running manager.update() call
    main,                             \* the main thread's position in update()
    last_update,                      \* manager -> last_update
    fetch_times                       \* manager -> start times of its two latest fetches

mgrVars == <<games_list, current_game_index, current_game, last_game_switch,
             game_update_timestamps>>
cursorVars == <<current_mode_index, last_mode_switch>>
ledgerVars == <<dynamic_cycle_seen_modes, dynamic_mode_to_manager_key, dynamic_manager_progress,
                dynamic_managers_completed, dynamic_cycle_complete, single_game_manager_start_times,
                game_id_start_times, display_mode_to_managers, last_display_mode, last_display_mode_time>>
stickyVars == <<sticky_manager_per_mode, sticky_manager_start_time, mode_start_time>>
contextVars == <<current_display_league, current_display_mode_type>>
fanVars == <<threads, main, last_update, fetch_times>>
vars == <<now, config, mgrVars, cursorVars, ledgerVars, stickyVars, contextVars, last_op, fanVars>>

\* ------------------------------------------------------------- dict helpers
Put(d, k, v) == [x \in (DOMAIN d) \cup {k} |-> IF x = k THEN v ELSE d[x]]
Del(d, k) == [x \in (DOMAIN d) \ {k} |-> d[x]]
Get(d, k, dflt) == IF k \in DOMAIN d THEN d[k] ELSE dflt
EmptyDict == [x \in {} |-> None]
SeqToSet(s) == {s[i] : i \in 1..Len(s)}

\* ------------------------------------------------------------- game records
\* A normalized game record as the extractor builds it; only the fields the
\* scheduler reads are kept.
MkGame(id, final, ptext, per, clk, home, away, start) ==
    [id |-> id, is_final |-> final, period_text |-> ptext, period |-> per,
     clock |-> clk, home_abbr |-> home, away_abbr |-> away, start_time_utc |-> start,
     league |-> "None", status |-> "None"]   \* keys a refresh does not write
StartOf(id) == CASE id = "A" -> 1 [] id = "B" -> 2 [] OTHER -> 3
PlainGame(id) == MkGame(id, FALSE, "", 0, "", "MEL", "SYD", StartOf(id))
GamesOf(ids) == [i \in 1..Len(ids) |-> PlainGame(ids[i])]
NoGame == MkGame("None", FALSE, "", 0, "", "", "", 0)   \* current_game is None
Ids(games) == {games[i].id : i \in 1..Len(games)}

\* the state of the plugin and of its managers as one record, so that the
\* sequential code of a handler is a chain of record updates
St ==
    [now |-> now, config |-> config,
     games_list |-> games_list, current_game_index |-> current_game_index,
     current_game |-> current_game, last_game_switch |-> last_game_switch,
     game_update_timestamps |-> game_update_timestamps,
     current_mode_index |-> current_mode_index, last_mode_switch |-> last_mode_switch,
     dynamic_cycle_seen_modes |-> dynamic_cycle_seen_modes,
     dynamic_mode_to_manager_key |-> dynamic_mode_to_manager_key,
     dynamic_manager_progress |-> dynamic_manager_progress,
     dynamic_managers_completed |-> dynamic_managers_completed,
     dynamic_cycle_complete |-> dynamic_cycle_complete,
     single_game_manager_start_times |-> single_game_manager_start_times,
     game_id_start_times |-> game_id_start_times,
     display_mode_to_managers |-> display_mode_to_managers,
     last_display_mode |-> last_display_mode,
     last_display_mode_time |-> last_display_mode_time,
     sticky_manager_per_mode |-> sticky_manager_per_mode,
     sticky_manager_start_time |-> sticky_manager_start_time,
     mode_start_time |-> mode_start_time,
     current_display_league |-> current_display_league,
     current_display_mode_type |-> current_display_mode_type,
     force_clear |-> FALSE,    \* the force_clear argument of the running call
     cleared |-> FALSE,        \* display_manager.clear() was invoked by the running call
     fetched |-> {},           \* managers whose update() fetched during the running call
     drawn |-> FALSE,          \* a manager's display() returned True during the running call
     failed |-> {},            \* managers whose update() raised during the running call
     no_data |-> {},           \* managers whose fetch returned no data during the call
     fault |-> "none",         \* the bookkeeping step that fails during the running call
     raised |-> FALSE]         \* an exception is propagating

\* The games the host has seen: when the configuration asks for it, a step
\* keeps in shown the ids of the games that the manager of the host's mode
\* drew in the display calls since its list last changed, a game drawn by
\* several calls in a row once, and of these the latest, as many as the list
\* has games.
WithShown(S, rec) ==
    IF ~S.config.track_shown THEN rec
    ELSE LET m == CHOOSE x \in S.config.host_modes : TRUE
             n == Len(S.games_list[m])
             base == IF S.games_list[m] # games_list[m] THEN <<>> ELSE last_op.shown
             id == S.current_game[m].id
             all == IF rec.op = "display" /\ rec.result /\ (base = <<>> \/ base[Len(base)] # id)
                    THEN Append(base, id) ELSE base
         IN [rec EXCEPT !.shown = IF Len(all) <= n THEN all
                                  ELSE SubSeq(all, Len(all) - n + 1, Len(all))]

CommitState(S, op) ==
    /\ now' = S.now
    /\ config' = S.config
    /\ games_list' = S.games_list
    /\ current_game_index' = S.current_game_index
    /\ current_game' = S.current_game
    /\ last_game_switch' = S.last_game_switch
    /\ game_update_timestamps' = S.game_update_timestamps
    /\ current_mode_index' = S.current_mode_index
    /\ last_mode_switch' = S.last_mode_switch
    /\ dynamic_cycle_seen_modes' = S.dynamic_cycle_seen_modes
    /\ dynamic_mode_to_manager_key' = S.dynamic_mode_to_manager_key
    /\ dynamic_manager_progress' = S.dynamic_manager_progress
    /\ dynamic_managers_completed' = S.dynamic_managers_completed
    /\ dynamic_cycle_complete' = S.dynamic_cycle_complete
    /\ single_game_manager_start_times' = S.single_game_manager_start_times
    /\ game_id_start_times' = S.game_id_start_times
    /\ display_mode_to_managers' = S.display_mode_to_managers
    /\ last_display_mode' = S.last_display_mode
    /\ last_display_mode_time' = S.last_display_mode_time
    /\ sticky_manager_per_mode' = S.sticky_manager_per_mode
    /\ sticky_manager_start_time' = S.sticky_manager_start_time
    /\ mode_start_time' = S.mode_start_time
    /\ current_display_league' = S.current_display_league
    /\ current_display_mode_type' = S.current_display_mode_type
    /\ last_op' = WithShown(S,
                  IF S.config.track_calls
                  THEN [op EXCEPT !.cleared = S.cleared, !.fetched = S.fetched,
                                  !.drawn = S.drawn, !.fault = S.fault,
                                  !.failed = S.failed, !.no_data = S.no_data,
                                  !.raised = S.raised]
                  ELSE [op EXCEPT !.raised = S.raised])

Commit(S, op) == CommitState(S, op) /\ UNCHANGED fanVars

\* raise: the rest of the handler is skipped up to the enclosing except
Raise(S) == [S EXCEPT !.raised = TRUE]
\* except Exception: the exception stops here
Caught(S) == [S EXCEPT !.raised = FALSE]

\* ------------------------------------------------------------ configuration
\* config.get(league, {}).get("enabled", False)
LeagueEnabled(cfg, l) == cfg.enabled[l]
\* display_modes.show_<mode>, default True
ShowMode(cfg, l, m) == cfg.show[<<l, m>>]

\* ------------------------------------------------------------ league registry
RegistryPriority(l) == CHOOSE i \in 1..Len(LeagueOrder) : LeagueOrder[i] = l

\* managers exist only for enabled leagues (_initialize_managers)
get_league_manager_for_mode(S, league_id, mode_type) ==
    IF league_id \in Leagues /\ LeagueEnabled(S.config, league_id)
    THEN <<league_id, mode_type>> ELSE NoMgr

RECURSIVE FilterSeq(_, _, _)
FilterSeq(s, keep, i) ==
    IF i > Len(s) THEN <<>>
    ELSE (IF s[i] \in keep THEN <<s[i]>> ELSE <<>>) \o FilterSeq(s, keep, i + 1)

\* list.sort(key=priority): one league is put behind every league already
\* placed whose priority is not greater (ascending and stable)
RECURSIVE InsertByPriorityDescending(_, _)
InsertByPriorityDescending(sorted, l) ==
    IF sorted = <<>> \/ RegistryPriority(sorted[Len(sorted)]) >= RegistryPriority(l)
    THEN Append(sorted, l)
    ELSE Append(InsertByPriorityDescending(SubSeq(sorted, 1, Len(sorted) - 1), l),
                sorted[Len(sorted)])

RECURSIVE InsertByPriority(_, _)
InsertByPriority(sorted, l) ==
    IF sorted = <<>> \/ RegistryPriority(sorted[Len(sorted)]) <= RegistryPriority(l)
    THEN Append(sorted, l)
    ELSE Append(InsertByPriority(SubSeq(sorted, 1, Len(sorted) - 1), l),
                sorted[Len(sorted)])

RECURSIVE SortByPriority(_, _)
SortByPriority(s, n) ==
    IF n = 0 THEN <<>> ELSE InsertByPriority(SortByPriority(s, n - 1), s[n])

\* leagues enabled for a mode type: the registry is walked in registration
\* order, the leagues that pass both gates are appended, and the list is
\* sorted by priority
get_enabled_leagues_for_mode(S, mode_type) ==
    LET enabled_leagues ==
            FilterSeq(LeagueOrder,
                      {l \in Leagues : LeagueEnabled(S.config, l)
                                         /\ ShowMode(S.config, l, mode_type)}, 1)
    IN SortByPriority(enabled_leagues, Len(enabled_leagues))

RECURSIVE ModesFrom(_, _, _)
ModesFrom(cfg, li, mi) ==
    IF li > Len(LeagueOrder) THEN <<>>
    ELSE IF mi > Len(ModeTypeOrder) THEN ModesFrom(cfg, li + 1, 1)
    ELSE (IF LeagueEnabled(cfg, LeagueOrder[li]) /\ ShowMode(cfg, LeagueOrder[li], ModeTypeOrder[mi])
          THEN << <<LeagueOrder[li], ModeTypeOrder[mi]>> >> ELSE <<>>)
         \o ModesFrom(cfg, li, mi + 1)

\* self.modes: one mode per enabled league and shown mode type, the NRL modes
\* when nothing is enabled
get_available_modes(cfg) ==
    LET modes == ModesFrom(cfg, 1, 1)
    IN IF modes = <<>>
       THEN << <<"nrl", "recent">>, <<"nrl", "upcoming">>, <<"nrl", "live">> >>
       ELSE modes

Modes(S) == get_available_modes(S.config)

\* per-game duration: manager attribute, then display_durations, then
\* live_game_duration (live only), then 15
\* variant: the manager's own game_display_duration is ignored
get_game_duration_default(S, league, mode_type, manager) ==
    IF IsSet(S.config.display_durations[<<league, mode_type>>])
    THEN S.config.display_durations[<<league, mode_type>>]
    ELSE DEFAULT_GAME_DURATION

get_game_duration_league_first(S, league, mode_type, manager) ==
    IF IsSet(S.config.display_durations[<<league, mode_type>>])
    THEN S.config.display_durations[<<league, mode_type>>]
    ELSE IF manager # NoMgr /\ IsSet(S.config.game_display_duration[manager])
    THEN S.config.game_display_duration[manager]
    ELSE IF mode_type = "live" /\ IsSet(S.config.live_game_duration[league])
    THEN S.config.live_game_duration[league]
    ELSE DEFAULT_GAME_DURATION

get_game_duration(S, league, mode_type, manager) ==
    IF manager # NoMgr /\ IsSet(S.config.game_display_duration[manager])
    THEN S.config.game_display_duration[manager]
    ELSE IF IsSet(S.config.display_durations[<<league, mode_type>>])
    THEN S.config.display_durations[<<league, mode_type>>]
    ELSE IF mode_type = "live" /\ IsSet(S.config.live_game_duration[league])
    THEN S.config.live_game_duration[league]
    ELSE DEFAULT_GAME_DURATION

\* mode_durations.<mode>_mode_duration, or None (-1)
get_mode_duration(S, league, mode_type) == S.config.mode_durations[<<league, mode_type>>]

build_manager_key(mode_name, manager) == <<mode_name, manager>>

get_total_games_for_manager(S, manager) ==
    IF manager = NoMgr THEN 0 ELSE Len(S.games_list[manager])

\* _get_manager_for_mode: the manager of a mode name, None for a disabled league
get_manager_for_mode(S, mode_name) ==
    IF mode_name[1] \in Leagues /\ LeagueEnabled(S.config, mode_name[1])
       /\ mode_name[2] \in ModeTypes
    THEN <<mode_name[1], mode_name[2]>> ELSE NoMgr

\* ------------------------------------------------------- game-state managers
\* A fetch outcome: ok = FALSE is a fetch that returned no data (or raised),
\* otherwise games is the list the extractor and the filters produced.
\* due = FALSE is a call inside the update interval, which returns at once.
NotDue == [due |-> FALSE, ok |-> FALSE, games |-> <<>>, raises |-> FALSE]
NoData == [due |-> TRUE, ok |-> FALSE, games |-> <<>>, raises |-> FALSE]
Fetched(games) == [due |-> TRUE, ok |-> TRUE, games |-> games, raises |-> FALSE]
\* the fetch raises: the manager is left as it was
Failing == [due |-> TRUE, ok |-> FALSE, games |-> <<>>, raises |-> TRUE]

IndexOfId(games, id) == CHOOSE i \in 1..Len(games) :
                            /\ games[i].id = id
                            /\ \A j \in 1..(i - 1) : games[j].id # id

ManagerDuration(S, m) == S.config.game_display_duration[m]

\* variant: a fetch without data empties the manager
ClearOnNoData(S, m) ==
    [S EXCEPT !.games_list[m] = <<>>, !.current_game[m] = NoGame]

\* a fetch without data: the games the manager holds are kept, and there is no
\* current game when it holds none
KeepOnNoData(S, m) ==
    IF S.games_list[m] = <<>> THEN [S EXCEPT !.current_game[m] = NoGame] ELSE S

\* SportsRecent.update / SportsUpcoming.update once the interval has passed:
\* the list is replaced only when its id set changed
RecentUpdate(S, m, fetch) ==
    IF ~fetch.ok
    THEN KeepOnNoData(S, m)
    ELSE LET team_games == fetch.games
             new_game_ids == Ids(team_games)
             current_game_ids == Ids(S.games_list[m])
         IN IF new_game_ids # current_game_ids
            THEN IF \/ S.current_game[m] = NoGame
                    \/ team_games = <<>>
                    \/ S.current_game[m].id \notin new_game_ids
                 THEN [S EXCEPT !.games_list[m] = team_games,
                                !.current_game_index[m] = 0,
                                !.current_game[m] = IF team_games # <<>> THEN team_games[1] ELSE NoGame,
                                !.last_game_switch[m] = S.now]
                 ELSE LET i == IndexOfId(team_games, S.current_game[m].id)
                      IN [S EXCEPT !.games_list[m] = team_games,
                                   !.current_game_index[m] = i - 1,
                                   !.current_game[m] = team_games[i]]
            ELSE IF S.games_list[m] # <<>>
            THEN [S EXCEPT !.current_game[m] = S.games_list[m][S.current_game_index[m] + 1]]
            ELSE [S EXCEPT !.current_game[m] = NoGame]

\* variant: the switch goes to the game after the next
ShowGamesSkipping(S, m) ==
    LET n == Len(S.games_list[m])
        switch == n > 1 /\ S.now - S.last_game_switch[m] >= ManagerDuration(S, m)
        idx == (S.current_game_index[m] + 2) % n
    IN [S |-> IF switch
              THEN [S EXCEPT !.current_game_index[m] = idx,
                             !.current_game[m] = S.games_list[m][idx + 1],
                             !.last_game_switch[m] = S.now,
                             !.cleared = TRUE,
                             !.drawn = TRUE]
              ELSE [S EXCEPT !.cleared = @ \/ (S.force_clear /\ S.current_game[m] # NoGame),
                             !.drawn = TRUE],
        result |-> TRUE]

\* the games branch of SportsRecent.display and SportsUpcoming.display: the
\* switch to the next game, then _draw_scorebug_layout, which clears on
\* force_clear or on a switch
ShowGames(S, m) ==
    LET n == Len(S.games_list[m])
        switch == n > 1 /\ S.now - S.last_game_switch[m] >= ManagerDuration(S, m)
        idx == (S.current_game_index[m] + 1) % n
    IN [S |-> IF switch
              THEN [S EXCEPT !.current_game_index[m] = idx,
                             !.current_game[m] = S.games_list[m][idx + 1],
                             !.last_game_switch[m] = S.now,
                             !.cleared = TRUE,
                             !.drawn = TRUE]
              ELSE [S EXCEPT !.cleared = @ \/ (S.force_clear /\ S.current_game[m] # NoGame),
                             !.drawn = TRUE],
        result |-> TRUE]

\* SportsRecent.display: an empty list always clears the display
RecentDisplay(S, m) ==
    IF S.games_list[m] = <<>>
    THEN [S |-> [S EXCEPT !.current_game[m] = NoGame, !.cleared = TRUE], result |-> FALSE]
    ELSE ShowGames(S, m)

\* SportsUpcoming.display: an empty list clears the display on force_clear
UpcomingDisplay(S, m) ==
    IF S.games_list[m] = <<>>
    THEN [S |-> [S EXCEPT !.current_game[m] = NoGame, !.cleared = @ \/ S.force_clear],
          result |-> FALSE]
    ELSE ShowGames(S, m)

\* SportsLive._is_game_really_over
is_game_really_over(game) ==
    \/ game.period_text = "final"
    \/ /\ game.clock # ""
       /\ game.period >= 4
       /\ game.clock \in {"0:00", ":00", "000", "00"}

RECURSIVE InsertByStart(_, _)
InsertByStart(sorted, g) ==
    IF sorted = <<>> THEN <<g>>
    ELSE IF g.start_time_utc < Head(sorted).start_time_utc THEN <<g>> \o sorted
    ELSE <<Head(sorted)>> \o InsertByStart(Tail(sorted), g)

RECURSIVE SortByStart(_)
SortByStart(games) ==
    IF games = <<>> THEN <<>>
    ELSE InsertByStart(SortByStart(SubSeq(games, 1, Len(games) - 1)), games[Len(games)])

\* the live filter of SportsLive.update on the fetched events
LiveInclude(S, m, details) ==
    /\ ~details.is_final
    /\ ~is_game_really_over(details)
    /\ \/ ~S.config.show_favorite_teams_only[m[1]]
       \/ S.config.favorite_teams[m[1]] = {}
       \/ details.home_abbr \in S.config.favorite_teams[m[1]]
       \/ details.away_abbr \in S.config.favorite_teams[m[1]]

\* lines 2598-2612: every game that passed the live filter is stamped with
\* the time it was seen
LiveStamp(S, m, new_live_games) ==
    LET old == S.game_update_timestamps[m]
    IN IF S.config.track_stale
       THEN [S EXCEPT !.game_update_timestamps[m] =
                [id \in DOMAIN old \cup Ids(new_live_games) |->
                    IF id \in Ids(new_live_games) THEN S.now ELSE old[id]]]
       ELSE S

\* _detect_stale_games(self.live_games): a held game is removed, with its
\* timestamps, when it was last seen more than stale_game_timeout seconds ago
\* (a game never seen has last_seen 0) or when it is really over
detect_stale_games(S, m) ==
    LET seen == S.game_update_timestamps[m]
        IsStale(g) == /\ g.id \in DOMAIN seen
                      /\ seen[g.id] > 0
                      /\ S.now - seen[g.id] > STALE_GAME_TIMEOUT
        Kept(g) == ~IsStale(g) /\ ~is_game_really_over(g)
        live_games == SelectSeq(S.games_list[m], Kept)
    IN [S EXCEPT !.games_list[m] = live_games,
                 !.game_update_timestamps[m] =
                     [id \in DOMAIN seen \ (Ids(S.games_list[m]) \ Ids(live_games)) |-> seen[id]]]

\* lines 2742-2747: timestamps are kept for the games still tracked only
PruneTimestamps(S, m) ==
    [S EXCEPT !.game_update_timestamps[m] =
        [id \in DOMAIN @ \cap Ids(S.games_list[m]) |-> @[id]]]

\* lines 2678-2747: the held list is replaced when the fetched ids differ from
\* the held ids, updated in place when they are the same, and emptied when no
\* game was fetched; current_time is the time update() read when it started
LiveStore(S, m, new_live_games, current_time) ==
    LET live_games == S.games_list[m]
        new_game_ids == Ids(new_live_games)
    IN PruneTimestamps(
       IF new_live_games # <<>>
       THEN IF new_game_ids # Ids(live_games)
            THEN LET sorted == SortByStart(new_live_games)
                 IN IF S.current_game[m] = NoGame \/ S.current_game[m].id \notin new_game_ids
                    THEN [S EXCEPT !.games_list[m] = sorted,
                                   !.current_game_index[m] = 0,
                                   !.current_game[m] = sorted[1],
                                   !.last_game_switch[m] = current_time]
                    ELSE LET i == IndexOfId(sorted, S.current_game[m].id)
                         IN [S EXCEPT !.games_list[m] = sorted,
                                      !.current_game_index[m] = i - 1,
                                      !.current_game[m] = sorted[i]]
            ELSE [S EXCEPT
                    !.games_list[m] =
                        [k \in 1..Len(live_games) |->
                            new_live_games[IndexOfId(new_live_games, live_games[k].id)]],
                    !.current_game[m] =
                        IF S.current_game[m] # NoGame /\ S.current_game[m].id \in new_game_ids
                        THEN new_live_games[IndexOfId(new_live_games, S.current_game[m].id)]
                        ELSE S.current_game[m]]
       ELSE [S EXCEPT !.games_list[m] = <<>>,
                      !.current_game[m] = NoGame,
                      !.current_game_index[m] = 0], m)

\* SportsLive.update once the interval has passed: the fetched events are
\* filtered and stamped, the held list is cleared of stale games, and the
\* list is stored
LiveRefresh(S, m, fetch) ==
    IF ~fetch.ok
    THEN KeepOnNoData(S, m)
    ELSE LET Inc(g) == LiveInclude(S, m, g)
             new_live_games == SelectSeq(fetch.games, Inc)
         IN LiveStore(detect_stale_games(LiveStamp(S, m, new_live_games), m),
                      m, new_live_games, S.now)

\* lines 2749-2760: the rotation at the end of update()
LiveRotateAt(S, m, current_time) ==
    IF /\ Len(S.games_list[m]) > 1
       /\ current_time - S.last_game_switch[m] >= ManagerDuration(S, m)
    THEN [S EXCEPT !.current_game_index[m] = (@ + 1) % Len(S.games_list[m]),
                   !.current_game[m] =
                       S.games_list[m][((S.current_game_index[m] + 1) % Len(S.games_list[m])) + 1],
                   !.last_game_switch[m] = current_time]
    ELSE S

LiveRotate(S, m) == LiveRotateAt(S, m, S.now)

LiveUpdate(S, m, fetch) == LiveRotate(LiveRefresh(S, m, fetch), m)

\* SportsCore.display (the live managers): True exactly when there is a current game
LiveDisplay(S, m) ==
    [S |-> [S EXCEPT !.cleared = @ \/ (S.force_clear /\ S.current_game[m] # NoGame),
                     !.drawn = @ \/ S.current_game[m] # NoGame],
     result |-> S.current_game[m] # NoGame]

ManagerUpdate(S, m, fetch) ==
    LET T == [S EXCEPT !.fetched = @ \cup {m},
                       !.no_data = IF fetch.ok THEN @ ELSE @ \cup {m}]
    IN IF ~fetch.due THEN S
       ELSE IF fetch.raises THEN [S EXCEPT !.fetched = @ \cup {m}, !.failed = @ \cup {m}]
       ELSE IF m[2] = "live" THEN LiveUpdate(T, m, fetch)
       ELSE RecentUpdate(T, m, fetch)

ManagerDisplay(S, m) ==
    IF m[2] = "live" THEN LiveDisplay(S, m)
    ELSE IF m[2] = "upcoming" THEN UpcomingDisplay(S, m)
    ELSE RecentDisplay(S, m)

\* --------------------------------------------------- dynamic-duration ledger
\* supports_dynamic_duration: per-league/per-mode "enabled", then per-league
\* "enabled", no global fallback.  A missing key is "unset".
supports_dynamic_duration(S) ==
    /\ S.config.is_enabled
    /\ S.current_display_league # None
    /\ S.current_display_mode_type # None
    /\ LET mode_enabled == S.config.dynamic_mode_enabled[<<S.current_display_league,
                                                           S.current_display_mode_type>>]
           league_enabled == S.config.dynamic_enabled[S.current_display_league]
       IN IF mode_enabled # "unset" THEN mode_enabled = "true"
          ELSE IF league_enabled # "unset" THEN league_enabled = "true"
          ELSE FALSE

dynamic_feature_enabled(S) == S.config.is_enabled /\ supports_dynamic_duration(S)

\* the ids of the manager's current game list
get_all_game_ids_for_manager(S, manager) ==
    IF manager = NoMgr THEN {} ELSE Ids(S.games_list[manager])

\* variant: an empty manager waits for the timer like a single game
track_single_game_progress_timer_only(S, manager_key, manager, league, mode_type) ==
    IF manager_key \notin DOMAIN S.single_game_manager_start_times
    THEN IF manager_key \in S.dynamic_managers_completed
         THEN S
         ELSE [S EXCEPT !.single_game_manager_start_times = Put(@, manager_key, S.now)]
    ELSE IF S.now - S.single_game_manager_start_times[manager_key]
              >= get_game_duration(S, league, mode_type, manager)
    THEN [S EXCEPT !.dynamic_managers_completed = @ \cup {manager_key},
                   !.single_game_manager_start_times = Del(@, manager_key)]
    ELSE S

\* Dwell time of a manager with at most one game: an empty manager is complete
\* at once; otherwise the first display of the cycle records the start time
\* and a later evaluation at or after start + per-game duration marks the key
\* complete and clears the start time.
track_single_game_progress(S, manager_key, manager, league, mode_type) ==
    IF get_total_games_for_manager(S, manager) = 0
    THEN [S EXCEPT !.dynamic_managers_completed = @ \cup {manager_key}]
    ELSE IF manager_key \notin DOMAIN S.single_game_manager_start_times
    THEN IF manager_key \in S.dynamic_managers_completed
         THEN S
         ELSE [S EXCEPT !.single_game_manager_start_times = Put(@, manager_key, S.now)]
    ELSE IF S.now - S.single_game_manager_start_times[manager_key]
              >= get_game_duration(S, league, mode_type, manager)
    THEN [S EXCEPT !.dynamic_managers_completed = @ \cup {manager_key},
                   !.single_game_manager_start_times = Del(@, manager_key)]
    ELSE S

\* the new-cycle test of an external call (display_mode differs from actual_mode)
IsNewCycle(S, display_mode) ==
    /\ display_mode # S.last_display_mode
    /\ (IF S.last_display_mode_time > 0
        THEN S.now - S.last_display_mode_time
        ELSE FIRST_SEEN_GAP) >= NEW_CYCLE_THRESHOLD

\* the reset of one manager key at the start of a new cycle
ResetManagerKey(S, manager_key) ==
    [S EXCEPT !.single_game_manager_start_times = Del(@, manager_key),
              !.dynamic_managers_completed = @ \ {manager_key},
              !.game_id_start_times = Del(@, manager_key),
              !.dynamic_manager_progress =
                  IF manager_key \in DOMAIN @ THEN Put(@, manager_key, {}) ELSE @]

\* the multi-game part of _record_dynamic_progress
RecordMultiGameProgress(S, manager_key, current_manager, league, mode_type) ==
    LET cur == S.current_game[current_manager]
        total_games == get_total_games_for_manager(S, current_manager)
    IN IF cur = NoGame THEN S
       ELSE
       LET game_id == cur.id
           progress0 == Get(S.dynamic_manager_progress, manager_key, {})
           times0 == Get(S.game_id_start_times, manager_key, EmptyDict)
           times1 == IF game_id \in DOMAIN times0 THEN times0 ELSE Put(times0, game_id, S.now)
           game_duration == get_game_duration(S, league, mode_type, current_manager)
           elapsed == S.now - times1[game_id]
           progress1 == IF elapsed >= game_duration THEN progress0 \cup {game_id} ELSE progress0
           valid_game_ids == get_all_game_ids_for_manager(S, current_manager)
           progress2 == IF valid_game_ids # {} THEN progress1 \cap valid_game_ids
                        ELSE IF total_games = 0 THEN {} ELSE progress1
           times2 == IF valid_game_ids # {}
                     THEN [k \in (DOMAIN times1) \cap valid_game_ids |-> times1[k]]
                     ELSE IF total_games = 0 THEN EmptyDict ELSE times1
           current_game_ids == get_all_game_ids_for_manager(S, current_manager)
           complete == IF current_game_ids # {} THEN current_game_ids \subseteq progress2
                       ELSE total_games = 0
       IN [S EXCEPT !.dynamic_manager_progress = Put(@, manager_key, progress2),
                    !.game_id_start_times = Put(@, manager_key, times2),
                    !.dynamic_managers_completed =
                        IF complete THEN @ \cup {manager_key} ELSE @]

\* lines 2727-2733: the mode (and a differing display mode) is seen, and the
\* mode maps to its manager key
NoteSeen(S, current_mode, display_mode, manager_key) ==
    [S EXCEPT !.dynamic_cycle_seen_modes =
                  @ \cup {current_mode}
                    \cup (IF display_mode # NoMode /\ display_mode # current_mode
                          THEN {display_mode} ELSE {}),
              !.dynamic_mode_to_manager_key = Put(@, current_mode, manager_key)]

\* lines 2767-2813: an external call remembers the display mode, and restarts
\* the manager key when it opens a new cycle
ExternalCallTracking(S, display_mode, manager_key) ==
    [(IF IsNewCycle(S, display_mode) THEN ResetManagerKey(S, manager_key) ELSE S)
        EXCEPT !.last_display_mode = display_mode,
               !.last_display_mode_time = S.now]

\* lines 2816-2818
NoteDisplayMode(S, current_mode, display_mode, manager_key) ==
    IF display_mode # NoMode /\ display_mode # current_mode
    THEN [S EXCEPT !.display_mode_to_managers =
                       Put(@, display_mode, Get(@, display_mode, {}) \cup {manager_key})]
    ELSE S

\* variant: every manager is tracked by the single-game timer
TrackProgressByTimer(S, manager_key, current_manager, league, mode_type) ==
    track_single_game_progress(S, manager_key, current_manager, league, mode_type)

\* lines 2820-2909
TrackProgress(S, manager_key, current_manager, league, mode_type) ==
    IF get_total_games_for_manager(S, current_manager) <= 1
    THEN track_single_game_progress(S, manager_key, current_manager, league, mode_type)
    ELSE RecordMultiGameProgress(S, manager_key, current_manager, league, mode_type)

\* variant: every recorded call restarts the manager key
RecordForModeRestarting(S, current_manager, current_mode, actual_mode, display_mode) ==
    LET manager_key == build_manager_key(current_mode, current_manager)
    IN TrackProgress(
           NoteDisplayMode(
               ResetManagerKey(NoteSeen(S, current_mode, display_mode, manager_key),
                               manager_key),
               current_mode, display_mode, manager_key),
           manager_key, current_manager, current_mode[1], current_mode[2])

RecordForMode(S, current_manager, current_mode, actual_mode, display_mode) ==
    LET manager_key == build_manager_key(current_mode, current_manager)
        is_external_call == display_mode # NoMode /\ actual_mode # NoMode
                            /\ display_mode # actual_mode
    IN TrackProgress(
           NoteDisplayMode(
               IF is_external_call
               THEN ExternalCallTracking(NoteSeen(S, current_mode, display_mode, manager_key),
                                         display_mode, manager_key)
               ELSE NoteSeen(S, current_mode, display_mode, manager_key),
               current_mode, display_mode, manager_key),
           manager_key, current_manager, current_mode[1], current_mode[2])

\* The fault "record" stands for any exception raised while recording.
record_dynamic_progress(S, current_manager, actual_mode, display_mode) ==
    IF S.fault = "record" THEN Raise(S)
    ELSE IF ~dynamic_feature_enabled(S) \/ Modes(S) = <<>>
    THEN [S EXCEPT !.dynamic_cycle_complete = TRUE]
    ELSE RecordForMode(S, current_manager,
                       IF actual_mode # NoMode THEN actual_mode
                       ELSE Modes(S)[S.current_mode_index + 1],
                       actual_mode, display_mode)

\* the single-game completion test shared by both loops of the display-mode
\* branch of _evaluate_dynamic_cycle_completion
KeyManagerResolves(S, manager_key) ==
    LET manager == get_manager_for_mode(S, manager_key[1])
    IN manager # NoMgr /\ manager = manager_key[2]

KeyElapsed(S, manager_key) == S.now - S.single_game_manager_start_times[manager_key]

KeyDuration(S, manager_key) ==
    get_game_duration(S, manager_key[1][1], manager_key[1][2],
                      get_manager_for_mode(S, manager_key[1]))

\* lines 2957-2999: the single-game keys whose dwell time has elapsed are
\* completed by the check itself
NewlyCompleted(S, used_manager_keys) ==
    {k \in used_manager_keys :
        /\ k \notin S.dynamic_managers_completed
        /\ KeyManagerResolves(S, k)
        /\ get_total_games_for_manager(S, get_manager_for_mode(S, k[1])) <= 1
        /\ k \in DOMAIN S.single_game_manager_start_times
        /\ KeyElapsed(S, k) >= KeyDuration(S, k)}

\* lines 3006-3036: a key that still carries an unexpired start time is not
\* truly complete
AllTrulyCompleted(S, used_manager_keys) ==
    \A k \in used_manager_keys :
        (/\ k \in DOMAIN S.single_game_manager_start_times
         /\ KeyManagerResolves(S, k))
        => KeyElapsed(S, k) >= KeyDuration(S, k)

\* variant: the completed set is replaced, not extended
CompleteKeysForgetful(S, newly) ==
    [S EXCEPT !.dynamic_managers_completed = newly,
              !.single_game_manager_start_times = [k \in (DOMAIN @) \ newly |-> @[k]]]

CompleteKeys(S, newly) ==
    [S EXCEPT !.dynamic_managers_completed = @ \cup newly,
              !.single_game_manager_start_times = [k \in (DOMAIN @) \ newly |-> @[k]]]

\* variant: the flag ignores the keys
SetCycleCompleteAlways(S, used_manager_keys) ==
    [S EXCEPT !.dynamic_cycle_complete = TRUE]

SetCycleComplete(S, used_manager_keys) ==
    IF used_manager_keys \ S.dynamic_managers_completed # {}
    THEN [S EXCEPT !.dynamic_cycle_complete = FALSE]
    ELSE [S EXCEPT !.dynamic_cycle_complete = AllTrulyCompleted(S, used_manager_keys)]

\* display-mode branch: every manager key used for the display mode must be
\* complete, and none may still carry an unexpired start time
EvaluateDisplayMode(S, display_mode) ==
    IF S.display_mode_to_managers[display_mode] = {}
    THEN [S EXCEPT !.dynamic_cycle_complete = FALSE]
    ELSE SetCycleComplete(
             CompleteKeys(S, NewlyCompleted(S, S.display_mode_to_managers[display_mode])),
             S.display_mode_to_managers[display_mode])

\* lines 3068-3081: the single-game test of the standard branch.  The start
\* time is only subscripted after the membership test; a subscript of a
\* missing key is a KeyError ("raise").
StandardSingleGameUnguarded(S, manager_key, manager) ==
    IF manager_key \notin DOMAIN S.single_game_manager_start_times THEN "raise"
    ELSE IF KeyElapsed(S, manager_key)
              >= (IF manager # NoMgr THEN ManagerDuration(S, manager)
                  ELSE DEFAULT_GAME_DURATION)
    THEN "complete" ELSE "wait"

StandardSingleGame(S, manager_key, manager) ==
    IF manager_key \in DOMAIN S.single_game_manager_start_times
    THEN StandardSingleGameUnguarded(S, manager_key, manager)
    ELSE "wait"

\* standard branch: walk self.modes in order, stop at the first mode that is
\* unseen or whose manager is not complete
RECURSIVE EvaluateStandard(_, _)
EvaluateStandard(S, i) ==
    IF i > Len(Modes(S)) THEN [S EXCEPT !.dynamic_cycle_complete = TRUE]
    ELSE
    LET mode_name == Modes(S)[i]
        Fail == [S EXCEPT !.dynamic_cycle_complete = FALSE]
    IN IF mode_name \notin S.dynamic_cycle_seen_modes THEN Fail
       ELSE IF mode_name \notin DOMAIN S.dynamic_mode_to_manager_key THEN Fail
       ELSE
       LET manager_key == S.dynamic_mode_to_manager_key[mode_name]
           manager == get_manager_for_mode(S, mode_name)
           total_games == get_total_games_for_manager(S, manager)
           Done == [S EXCEPT !.dynamic_managers_completed = @ \cup {manager_key}]
       IN IF manager_key \in S.dynamic_managers_completed THEN EvaluateStandard(S, i + 1)
          ELSE IF total_games <= 1
          THEN CASE StandardSingleGame(S, manager_key, manager) = "complete"
                      -> EvaluateStandard(Done, i + 1)
                 [] StandardSingleGame(S, manager_key, manager) = "raise" -> Raise(S)
                 [] OTHER -> Fail
          ELSE LET progress_set == Get(S.dynamic_manager_progress, manager_key, {})
                   current_game_ids == get_all_game_ids_for_manager(S, manager)
               IN IF current_game_ids # {} /\ current_game_ids \subseteq progress_set
                  THEN EvaluateStandard(Done, i + 1)
                  ELSE Fail

\* The fault "evaluate" stands for any exception raised while evaluating.
evaluate_dynamic_cycle_completion(S, display_mode) ==
    IF S.fault = "evaluate" THEN Raise(S)
    ELSE IF ~dynamic_feature_enabled(S) THEN [S EXCEPT !.dynamic_cycle_complete = TRUE]
    ELSE IF Modes(S) = <<>> THEN [S EXCEPT !.dynamic_cycle_complete = TRUE]
    ELSE IF display_mode # NoMode /\ display_mode \in DOMAIN S.display_mode_to_managers
    THEN EvaluateDisplayMode(S, display_mode)
    ELSE EvaluateStandard(S, 1)

\* ------------------------------------------------------------ sticky manager
\* variant: the candidates are never narrowed
apply_sticky_no_narrowing(S, display_mode, managers_to_try) ==
    [S |-> S, result |-> managers_to_try]

\* _apply_sticky_manager_logic: the candidates narrowed to the sticky manager
\* when it is among them; otherwise a stale sticky record is dropped
apply_sticky_keep_start_time(S, display_mode, managers_to_try) ==
    LET sticky_manager == Get(S.sticky_manager_per_mode, display_mode, NoMgr)
    IN IF sticky_manager # NoMgr /\ sticky_manager \in SeqToSet(managers_to_try)
       THEN [S |-> S, result |-> <<sticky_manager>>]
       ELSE IF sticky_manager # NoMgr
       THEN [S |-> [S EXCEPT !.sticky_manager_per_mode = Del(@, display_mode)],
             result |-> managers_to_try]
       ELSE [S |-> S, result |-> managers_to_try]

apply_sticky_manager_logic(S, display_mode, managers_to_try) ==
    LET sticky_manager == Get(S.sticky_manager_per_mode, display_mode, NoMgr)
    IN IF sticky_manager # NoMgr /\ sticky_manager \in SeqToSet(managers_to_try)
       THEN [S |-> S, result |-> <<sticky_manager>>]
       ELSE IF sticky_manager # NoMgr
       THEN [S |-> [S EXCEPT !.sticky_manager_per_mode = Del(@, display_mode),
                             !.sticky_manager_start_time = Del(@, display_mode)],
             result |-> managers_to_try]
       ELSE [S |-> S, result |-> managers_to_try]

\* ------------------------------------------------------------- display paths
set_display_context_from_manager(S, manager, mode_type) ==
    [S EXCEPT !.current_display_mode_type = mode_type,
              !.current_display_league = IF manager[1] \in Leagues THEN manager[1] ELSE @]

\* _ensure_manager_updated: manager.update() when the manager is stale
ensure_manager_updated(S, manager, fetch) == ManagerUpdate(S, manager, fetch)

\* lines 1892-1896: the mode name the progress is tracked under
ActualMode(S, mode_type, display_mode) ==
    IF S.current_display_league # None
    THEN <<S.current_display_league, mode_type>> ELSE display_mode

\* variant: the manager that rendered last is the sticky manager
RecordDisplayUseOverwriting(S, manager, display_mode, manager_key) ==
    [S EXCEPT !.sticky_manager_per_mode = Put(@, display_mode, manager),
              !.sticky_manager_start_time = Put(@, display_mode, S.now),
              !.display_mode_to_managers =
                  Put(@, display_mode, Get(@, display_mode, {}) \cup {manager_key})]

\* lines 1973-1981: the first manager to render for a display mode becomes its
\* sticky manager, and its key is recorded as used for the display mode
RecordDisplayUse(S, manager, display_mode, manager_key) ==
    [S EXCEPT !.sticky_manager_per_mode =
                  IF display_mode \in DOMAIN @ THEN @ ELSE Put(@, display_mode, manager),
              !.sticky_manager_start_time =
                  IF display_mode \in DOMAIN S.sticky_manager_per_mode THEN @
                  ELSE Put(@, display_mode, S.now),
              !.display_mode_to_managers =
                  Put(@, display_mode, Get(@, display_mode, {}) \cup {manager_key})]

\* lines 1964-2007: what follows manager.display(); D is its outcome
AfterManagerDisplay(D, manager, display_mode, mode_type) ==
    IF D.result
    THEN [S |-> evaluate_dynamic_cycle_completion(
                    RecordDisplayUse(
                        Caught(record_dynamic_progress(D.S, manager,
                                                       ActualMode(D.S, mode_type, display_mode),
                                                       display_mode)),
                        manager, display_mode,
                        build_manager_key(ActualMode(D.S, mode_type, display_mode), manager)),
                    display_mode),
          success |-> TRUE]
    ELSE [S |-> D.S, success |-> FALSE]

\* _try_manager_display with sticky_manager = None (its only caller passes None)
try_manager_display(S, manager, display_mode, mode_type, fetch) ==
    IF manager = NoMgr THEN [S |-> S, success |-> FALSE]
    ELSE AfterManagerDisplay(
             ManagerDisplay(
                 ensure_manager_updated(
                     set_display_context_from_manager(S, manager, mode_type), manager, fetch),
                 manager),
             manager, display_mode, mode_type)

get_effective_mode_duration(S, display_mode, mode_type) ==
    IF S.current_display_league = None THEN -1
    ELSE get_mode_duration(S, S.current_display_league, mode_type)

\* lines 1708-1709
StartModeTimer(S, display_mode) ==
    [S EXCEPT !.mode_start_time =
                  IF display_mode \in DOMAIN @ THEN @ ELSE Put(@, display_mode, S.now)]

\* variant: the mode goes on for as long as the duration has not been exceeded
CheckModeDurationLate(S, display_mode, mode_type) ==
    IF /\ IsSet(get_effective_mode_duration(S, display_mode, mode_type))
       /\ S.now - S.mode_start_time[display_mode]
            > get_effective_mode_duration(S, display_mode, mode_type)
    THEN [S |-> [S EXCEPT !.mode_start_time = Put(@, display_mode, S.now)], result |-> FALSE]
    ELSE [S |-> S, result |-> TRUE]

\* lines 1711-1725: an expired mode-level duration restarts the timer and
\* reports False
CheckModeDuration(S, display_mode, mode_type) ==
    IF /\ IsSet(get_effective_mode_duration(S, display_mode, mode_type))
       /\ S.now - S.mode_start_time[display_mode]
            >= get_effective_mode_duration(S, display_mode, mode_type)
    THEN [S |-> [S EXCEPT !.mode_start_time = Put(@, display_mode, S.now)], result |-> FALSE]
    ELSE [S |-> S, result |-> TRUE]

\* lines 1705-1740: what follows _try_manager_display; T is its outcome
AfterTryDisplay(T, display_mode, mode_type) ==
    IF T.S.raised THEN [S |-> T.S, result |-> FALSE]
    ELSE IF T.success
    THEN CheckModeDuration(StartModeTimer(T.S, display_mode), display_mode, mode_type)
    ELSE [S |-> [T.S EXCEPT !.mode_start_time = Del(@, display_mode)], result |-> FALSE]

\* _display_league_mode in switch mode
display_league_mode(S, league, mode_type, fetch) ==
    IF \/ league \notin Leagues
       \/ ~LeagueEnabled(S.config, league)
       \/ get_league_manager_for_mode(S, league, mode_type) = NoMgr
    THEN [S |-> S, result |-> FALSE]
    ELSE AfterTryDisplay(
             try_manager_display([S EXCEPT !.current_display_league = league,
                                           !.current_display_mode_type = mode_type],
                                 get_league_manager_for_mode(S, league, mode_type),
                                 <<league, mode_type>>, mode_type, fetch),
             <<league, mode_type>>, mode_type)

\* the live games of a league that count as live content: live priority on,
\* not final, not really over, and a favorite team playing when favorites
\* are configured
\* variant: live games count only when they involve a favorite team
LeagueHasFavoriteLive(S, league) ==
    /\ LeagueEnabled(S.config, league)
    /\ S.config.live_priority[league]
    /\ \E i \in 1..Len(S.games_list[<<league, "live">>]) :
           \/ S.games_list[<<league, "live">>][i].home_abbr \in S.config.favorite_teams[league]
           \/ S.games_list[<<league, "live">>][i].away_abbr \in S.config.favorite_teams[league]

\* _has_live_games_for_manager: a game that is neither final nor really
\* over, of a favorite team when favorite teams are configured
has_live_games_for_manager(S, manager) ==
    /\ manager # NoMgr
    /\ LET NotFinal(g) == ~g.is_final
           NotOver(g) == ~is_game_really_over(g)
           live_games == SelectSeq(SelectSeq(S.games_list[manager], NotFinal), NotOver)
           favorite_teams == S.config.favorite_teams[manager[1]]
       IN /\ live_games # <<>>
          /\ \/ favorite_teams = {}
             \/ \E i \in 1..Len(live_games) :
                    \/ live_games[i].home_abbr \in favorite_teams
                    \/ live_games[i].away_abbr \in favorite_teams

\* has_live_content, the block of one league (lines 1293-1319 for NRL): the
\* league is enabled with live priority, and of its live manager's games that
\* are neither final nor really over, one involves a favorite team when the
\* manager has favorite teams, and one exists when it has none
LeagueHasLiveContent(S, league) ==
    /\ LeagueEnabled(S.config, league)
    /\ S.config.live_priority[league]
    /\ LET NotFinal(g) == ~g.is_final
           NotOver(g) == ~is_game_really_over(g)
           live_games == SelectSeq(SelectSeq(S.games_list[<<league, "live">>], NotFinal), NotOver)
           favorite_teams == S.config.favorite_teams[league]
       IN /\ live_games # <<>>
          /\ IF favorite_teams # {}
             THEN \E i \in 1..Len(live_games) :
                      \/ live_games[i].home_abbr \in favorite_teams
                      \/ live_games[i].away_abbr \in favorite_teams
             ELSE TRUE

\* variant of the block of get_live_modes: the favorite teams are not looked at
LiveModesOfAnyTeam(S, league) ==
    LET NotFinal(g) == ~g.is_final
        NotOver(g) == ~is_game_really_over(g)
        held == S.games_list[<<league, "live">>]
        live_games == SelectSeq(SelectSeq(held, NotFinal), NotOver)
    IN IF ~(LeagueEnabled(S.config, league) /\ S.config.live_priority[league]) THEN <<>>
       ELSE IF held = <<>> THEN <<>>
       ELSE IF live_games = <<>> THEN <<>>
       ELSE << <<league, "live">> >>

\* get_live_modes, the block of one league (lines 1439-1465 for NRL): what it
\* appends to live_modes
LiveModesOf(S, league) ==
    LET NotFinal(g) == ~g.is_final
        NotOver(g) == ~is_game_really_over(g)
        held == S.games_list[<<league, "live">>]
        live_games == SelectSeq(SelectSeq(held, NotFinal), NotOver)
        favorite_teams == S.config.favorite_teams[league]
    IN IF ~(LeagueEnabled(S.config, league) /\ S.config.live_priority[league]) THEN <<>>
       ELSE IF held = <<>> THEN <<>>
       ELSE IF live_games = <<>> THEN <<>>
       ELSE IF favorite_teams # {}
       THEN (IF \E i \in 1..Len(live_games) :
                   \/ live_games[i].home_abbr \in favorite_teams
                   \/ live_games[i].away_abbr \in favorite_teams
             THEN << <<league, "live">> >> ELSE <<>>)
       ELSE << <<league, "live">> >>

\* _resolve_managers_for_mode: for live, every enabled league's live manager
\* is updated first (an exception is caught), then the managers of leagues
\* with live priority are kept when they have live games, those of leagues
\* without it are kept anyway, and an empty result falls back to all of them
RECURSIVE UpdateLiveManagers(_, _, _, _)
UpdateLiveManagers(S, enabled_leagues, f, i) ==
    IF i > Len(enabled_leagues) THEN S
    ELSE UpdateLiveManagers(ManagerUpdate(S, <<enabled_leagues[i], "live">>,
                                          f[<<enabled_leagues[i], "live">>]),
                            enabled_leagues, f, i + 1)

resolve_managers_for_mode(S, mode_type, f) ==
    LET enabled_leagues == get_enabled_leagues_for_mode(S, mode_type)
        all == [i \in 1..Len(enabled_leagues) |-> <<enabled_leagues[i], mode_type>>]
    IN IF mode_type # "live" THEN [S |-> S, result |-> all]
       ELSE LET S1 == UpdateLiveManagers(S, enabled_leagues, f, 1)
                Keep(m) == \/ ~S1.config.live_priority[m[1]]
                           \/ has_live_games_for_manager(S1, m)
                managers_to_try == SelectSeq(all, Keep)
            IN [S |-> S1,
                result |-> IF managers_to_try = <<>> THEN all ELSE managers_to_try]

has_live_content(S) ==
    /\ S.config.is_enabled
    /\ \E league \in Leagues : LeagueHasLiveContent(S, league)

\* get_live_modes: the blocks of the leagues in the order of the source
get_live_modes(S) ==
    IF ~S.config.is_enabled THEN <<>>
    ELSE LiveModesOf(S, "nrl") \o LiveModesOf(S, "wnba")

get_current_manager(S) ==
    IF Modes(S) = <<>> THEN NoMgr
    ELSE get_manager_for_mode(S, Modes(S)[S.current_mode_index + 1])

\* index (0-based) of the first mode ending in _live, -1 when there is none
FirstLiveIndex(modes) ==
    IF \E i \in 1..Len(modes) : modes[i][2] = "live"
    THEN (CHOOSE i \in 1..Len(modes) :
             /\ modes[i][2] = "live"
             /\ \A j \in 1..(i - 1) : modes[j][2] # "live") - 1
    ELSE -1

CurrentMode(S) == Modes(S)[S.current_mode_index + 1]

\* lines 1207-1212
ShouldStayOnLive(S) == has_live_content(S) /\ CurrentMode(S)[2] = "live"

\* lines 1214-1223: live content while on another mode moves the cursor to the
\* first mode ending in _live
PreemptForLive(S) ==
    IF has_live_content(S) /\ CurrentMode(S)[2] # "live" /\ FirstLiveIndex(Modes(S)) >= 0
    THEN [S EXCEPT !.current_mode_index = FirstLiveIndex(Modes(S)),
                   !.last_mode_switch = S.now,
                   !.force_clear = TRUE]
    ELSE S

\* variant: the cursor advances on every call that does not stay on live
AdvanceModeEveryCall(S, should_stay_on_live) ==
    IF ~should_stay_on_live
    THEN [S EXCEPT !.current_mode_index = (@ + 1) % Len(Modes(S)),
                   !.last_mode_switch = S.now,
                   !.force_clear = TRUE]
    ELSE S

\* lines 1225-1233: the timed advance of the cursor
AdvanceMode(S, should_stay_on_live) ==
    IF ~should_stay_on_live /\ S.now - S.last_mode_switch >= S.config.display_duration
    THEN [S EXCEPT !.current_mode_index = (@ + 1) % Len(Modes(S)),
                   !.last_mode_switch = S.now,
                   !.force_clear = TRUE]
    ELSE S

\* lines 1239-1252
SetContextFromMode(S) ==
    [S EXCEPT !.current_display_league = CurrentMode(S)[1],
              !.current_display_mode_type = CurrentMode(S)[2]]

\* lines 1254-1269: what follows current_manager.display(); D is its outcome
AfterInternalDisplay(D, current_manager, current_mode) ==
    [S |-> evaluate_dynamic_cycle_completion(
               IF D.result
               THEN Caught(record_dynamic_progress(D.S, current_manager, current_mode,
                                                   current_mode))
               ELSE D.S,
               current_mode),
     result |-> D.result]

\* lines 1235-1272
DisplayCurrent(S) ==
    IF get_current_manager(S) = NoMgr THEN [S |-> S, result |-> FALSE]
    ELSE AfterInternalDisplay(ManagerDisplay(SetContextFromMode(S), get_current_manager(S)),
                              get_current_manager(S), CurrentMode(S))

\* display() without a display_mode: internal mode cycling with live preemption
display_internal(S) == DisplayCurrent(AdvanceMode(PreemptForLive(S), ShouldStayOnLive(S)))

\* display(display_mode, force_clear)
\* the except clause that closes display(): log and return False
DisplayCaught(R) ==
    IF R.S.raised THEN [S |-> Caught(R.S), result |-> FALSE] ELSE R

display(S, display_mode, fetch) ==
    IF ~S.config.is_enabled THEN [S |-> S, result |-> FALSE]
    ELSE IF display_mode = NoMode THEN DisplayCaught(display_internal(S))
    ELSE IF display_mode \notin SeqToSet(Modes(S)) THEN [S |-> S, result |-> FALSE]
    ELSE DisplayCaught(display_league_mode(S, display_mode[1], display_mode[2], fetch))

\* ------------------------------------------------------------- cycle queries
reset_cycle_state(S) ==
    [S EXCEPT !.dynamic_cycle_seen_modes = {},
              !.dynamic_mode_to_manager_key = EmptyDict,
              !.dynamic_manager_progress = EmptyDict,
              !.dynamic_managers_completed = {},
              !.dynamic_cycle_complete = FALSE]

\* is_cycle_complete: _current_active_display_mode is never assigned, so the
\* evaluation runs with display_mode = None
is_cycle_complete(S) ==
    IF ~dynamic_feature_enabled(S) THEN [S |-> S, result |-> TRUE]
    ELSE LET S1 == evaluate_dynamic_cycle_completion(S, NoMode)
         IN [S |-> S1, result |-> S1.dynamic_cycle_complete]

\* lines 2155-2160 and 2232-2275: the games of the manager times the per-game duration
CycleDurationOf(S, league, mode_type, manager) ==
    LET NotFinal(g) == ~g.is_final
        NotOver(g) == ~is_game_really_over(g)
        games == IF manager = NoMgr THEN <<>>
                 ELSE IF mode_type = "live"
                 THEN SelectSeq(SelectSeq(S.games_list[manager], NotFinal), NotOver)
                 ELSE S.games_list[manager]
    IN [S |-> S,
        result |-> IF Len(games) = 0 THEN DEFAULT_CYCLE_DURATION
                   ELSE Len(games) * get_game_duration(S, league, mode_type, manager)]

\* lines 2094-2153: the league of the mode; an nrl_ mode takes the league of
\* the current display context when there is one
CycleLeague(S, display_mode) ==
    IF display_mode[1] # "nrl" THEN display_mode[1]
    ELSE IF S.current_display_league # None THEN S.current_display_league
    ELSE "nrl"

CycleDurationFor(S, league, mode_type, fetch) ==
    IF IsSet(get_mode_duration(S, league, mode_type))
    THEN [S |-> S, result |-> get_mode_duration(S, league, mode_type)]
    ELSE IF get_league_manager_for_mode(S, league, mode_type) = NoMgr
    THEN CycleDurationOf(S, league, mode_type, NoMgr)
    ELSE CycleDurationOf(
             ensure_manager_updated(S, get_league_manager_for_mode(S, league, mode_type), fetch),
             league, mode_type, get_league_manager_for_mode(S, league, mode_type))

\* variant: the estimate starts a new cycle
get_cycle_duration_resetting(S, display_mode, fetch) ==
    IF ~S.config.is_enabled \/ display_mode = NoMode THEN [S |-> S, result |-> -1]
    ELSE LET R == CycleDurationFor(S, CycleLeague(S, display_mode), display_mode[2], fetch)
         IN [S |-> reset_cycle_state(R.S), result |-> R.result]

\* get_cycle_duration(display_mode): None is -1
get_cycle_duration(S, display_mode, fetch) ==
    IF ~S.config.is_enabled \/ display_mode = NoMode THEN [S |-> S, result |-> -1]
    ELSE CycleDurationFor(S, CycleLeague(S, display_mode), display_mode[2], fetch)

\* ------------------------------------------------------------ data extractor
\* A value of the decoded feed: its Python type, its number (an int's value,
\* or a float in tenths: floats are carried to one decimal place), its text (a
\* str as a sequence of characters, a quoted key being one of them; "inf" and
\* "nan" for the floats of that name) and its items (the key-value pairs of a
\* dict, the index-value pairs of a list).
PyVal(type, num, text, items) == [type |-> type, num |-> num, text |-> text, items |-> items]
PyNone == PyVal("NoneType", 0, <<>>, <<>>)
PyInt(n) == PyVal("int", n, <<>>, <<>>)
PyFloat(tenths) == PyVal("float", tenths, <<>>, <<>>)
PyInf == PyVal("float", 0, <<"inf">>, <<>>)
PyNan == PyVal("float", 0, <<"nan">>, <<>>)
PyStr(text) == PyVal("str", 0, text, <<>>)
PyDict(items) == PyVal("dict", 0, <<>>, items)
PyList(items) == PyVal("list", 0, <<>>, items)

\* dict.get(key, default)
dict_get(d, key, default) ==
    IF \E i \in 1..Len(d.items) : d.items[i][1] = key
    THEN d.items[CHOOSE i \in 1..Len(d.items) : d.items[i][1] = key][2]
    ELSE default

\* value == 0
EqualsZero(v) == v.type \in {"int", "float"} /\ v.num = 0 /\ v.text = <<>>

Digits == {"0", "1", "2", "3", "4", "5", "6", "7", "8", "9"}
DigitValue(c) ==
    CASE c = "0" -> 0 [] c = "1" -> 1 [] c = "2" -> 2 [] c = "3" -> 3 [] c = "4" -> 4
      [] c = "5" -> 5 [] c = "6" -> 6 [] c = "7" -> 7 [] c = "8" -> 8 [] OTHER -> 9
DigitOf(n) ==
    CASE n = 0 -> "0" [] n = 1 -> "1" [] n = 2 -> "2" [] n = 3 -> "3" [] n = 4 -> "4"
      [] n = 5 -> "5" [] n = 6 -> "6" [] n = 7 -> "7" [] n = 8 -> "8" [] OTHER -> "9"
IsDigitRun(t) == t # <<>> /\ \A i \in 1..Len(t) : t[i] \in Digits

RECURSIVE DigitsToNat(_)
DigitsToNat(t) ==
    IF t = <<>> THEN 0
    ELSE DigitsToNat(SubSeq(t, 1, Len(t) - 1)) * 10 + DigitValue(t[Len(t)])

RECURSIVE NatToDigits(_)
NatToDigits(n) ==
    IF n < 10 THEN <<DigitOf(n)>> ELSE NatToDigits(n \div 10) \o <<DigitOf(n % 10)>>

\* str.strip()
RECURSIVE strip(_)
strip(t) ==
    IF t # <<>> /\ t[1] = " " THEN strip(Tail(t))
    ELSE IF t # <<>> /\ t[Len(t)] = " " THEN strip(SubSeq(t, 1, Len(t) - 1))
    ELSE t

\* the outcome of a conversion: the value, or the exception it raises
Returns(v) == [err |-> "", val |-> v]
Raises(err) == [err |-> err, val |-> PyNone]

\* float(str): an optional sign, then digits with an optional fraction, or
\* inf or nan
FloatOfText(t) ==
    LET s == strip(t)
        signed == s # <<>> /\ s[1] \in {"-", "+"}
        sign == IF signed /\ s[1] = "-" THEN -1 ELSE 1
        body == IF signed THEN Tail(s) ELSE s
        dots == {i \in 1..Len(body) : body[i] = "."}
        whole == IF dots = {} THEN body ELSE SubSeq(body, 1, (CHOOSE i \in dots : TRUE) - 1)
        frac == IF dots = {} THEN <<>>
                ELSE SubSeq(body, (CHOOSE i \in dots : TRUE) + 1, Len(body))
        Run(x) == \A i \in 1..Len(x) : x[i] \in Digits
    IN IF body = <<"inf">> THEN Returns(PyInf)
       ELSE IF body = <<"nan">> THEN Returns(PyNan)
       ELSE IF /\ Cardinality(dots) <= 1 /\ Run(whole) /\ Run(frac)
               /\ whole \o frac # <<>>
       THEN Returns(PyFloat(sign * (DigitsToNat(whole) * 10
                                    + (IF frac = <<>> THEN 0 ELSE DigitValue(frac[1])))))
       ELSE Raises("ValueError")

\* float(value)
py_float(v) ==
    CASE v.type = "int" -> Returns(PyFloat(v.num * 10))
      [] v.type = "float" -> Returns(v)
      [] v.type = "str" -> FloatOfText(v.text)
      [] OTHER -> Raises("TypeError")

\* int(float): truncation toward zero
py_int(f) ==
    IF f.text = <<"nan">> THEN Raises("ValueError")
    ELSE IF f.text = <<"inf">> THEN Raises("OverflowError")
    ELSE Returns(PyInt(IF f.num >= 0 THEN f.num \div 10 ELSE -((-f.num) \div 10)))

\* str(int)
py_str(n) == IF n.num < 0 THEN <<"-">> \o NatToDigits(-n.num) ELSE NatToDigits(n.num)

\* re.findall(r'\d+', text)[0]: the first run of digits, empty when there is none
RECURSIVE FirstNumber(_)
FirstNumber(t) ==
    IF t = <<>> THEN <<>>
    ELSE IF t[1] \notin Digits THEN FirstNumber(Tail(t))
    ELSE IF Len(t) > 1 /\ t[2] \in Digits THEN <<t[1]>> \o FirstNumber(Tail(t))
    ELSE <<t[1]>>

\* json.loads of the texts the feed has been seen to carry: an array of one
\* number, an object of one double-quoted key and a number, the empty array
\* and the empty object; anything else does not decode
JsonKeys == {"\"value\"", "\"displayValue\"", "\"score\""}
KeyOfJson(k) ==
    CASE k = "\"value\"" -> "value" [] k = "\"displayValue\"" -> "displayValue"
      [] OTHER -> "score"
json_loads(t) ==
    IF t = <<"[", "]">> THEN Returns(PyList(<<>>))
    ELSE IF t = <<"{", "}">> THEN Returns(PyDict(<<>>))
    ELSE IF /\ Len(t) >= 3 /\ t[1] = "[" /\ t[Len(t)] = "]"
            /\ IsDigitRun(SubSeq(t, 2, Len(t) - 1))
    THEN Returns(PyList(<< <<"0", PyInt(DigitsToNat(SubSeq(t, 2, Len(t) - 1)))>> >>))
    ELSE IF /\ Len(t) >= 5 /\ t[1] = "{" /\ t[Len(t)] = "}" /\ t[2] \in JsonKeys
            /\ t[3] = ":" /\ IsDigitRun(strip(SubSeq(t, 4, Len(t) - 1)))
    THEN Returns(PyDict(<< <<KeyOfJson(t[2]),
                             PyInt(DigitsToNat(strip(SubSeq(t, 4, Len(t) - 1))))>> >>))
    ELSE Raises("JSONDecodeError")

\* the score a call returns, as text, or the exception that leaves it
Score(text) == [raises |-> FALSE, text |-> text]
ScoreRaises == [raises |-> TRUE, text |-> <<>>]

\* lines 992-993: str(int(float(score_value))); ValueError and TypeError give "0"
ScoreOfValue(score_value) ==
    LET f == py_float(score_value)
        n == py_int(f.val)
    IN IF f.err # "" THEN Score(<<"0">>)
       ELSE IF n.err = "OverflowError" THEN ScoreRaises
       ELSE IF n.err # "" THEN Score(<<"0">>)
       ELSE Score(py_str(n.val))

\* the regex fallback of both string branches
ScoreByRegex(text) ==
    IF FirstNumber(text) # <<>>
    THEN ScoreOfValue(PyFloat(DigitsToNat(FirstNumber(text)) * 10))
    ELSE Score(<<"0">>)

\* lines 995-1026: a str score_value
ScoreOfText(text) ==
    LET t == strip(text)
        parsed == json_loads(t)
    IN IF t # <<>> /\ t[1] \in {"{", "["}
       THEN IF parsed.err # "" THEN ScoreByRegex(t)
            ELSE IF parsed.val.type = "dict"
            THEN ScoreOfValue(dict_get(parsed.val, "value",
                                  dict_get(parsed.val, "displayValue",
                                      dict_get(parsed.val, "score", PyInt(0)))))
            ELSE IF parsed.val.type = "list" /\ Len(parsed.val.items) > 0
            THEN ScoreOfValue(parsed.val.items[1][2])
            ELSE ScoreOfValue(parsed.val)
       ELSE IF py_float(PyStr(t)).err = "" THEN ScoreOfValue(py_float(PyStr(t)).val)
       ELSE ScoreByRegex(t)

\* extract_score(team_data)
extract_score(team_data) ==
    LET score == dict_get(team_data, "score", PyNone)
        value == dict_get(score, "value", PyInt(0))
        score_value == IF score.type = "dict"
                       THEN IF EqualsZero(value)
                            THEN dict_get(score, "displayValue",
                                          dict_get(score, "score", PyInt(0)))
                            ELSE value
                       ELSE score
    IN IF score = PyNone THEN Score(<<"0">>)
       ELSE IF score_value.type = "str" THEN ScoreOfText(score_value.text)
       ELSE ScoreOfValue(score_value)

\* str.lower() of the status names of the feed
Lower(name) ==
    CASE name = "STATUS_SCHEDULED" -> "status_scheduled"
      [] name = "STATUS_IN_PROGRESS" -> "status_in_progress"
      [] name = "STATUS_HALFTIME" -> "status_halftime"
      [] name = "STATUS_END_PERIOD" -> "status_end_period"
      [] name = "STATUS_FINAL" -> "status_final"
      [] name = "Scheduled" -> "scheduled"
      [] OTHER -> name

\* An event of the feed, as far as the scores and the state flags read it.
Event(state, name, home, away) ==
    [state |-> state, name |-> name, home_team |-> home, away_team |-> away]
NoEvent == Event("pre", "STATUS_SCHEDULED", PyDict(<<>>), PyDict(<<>>))
NoDetails == [extracted |-> FALSE, home_score |-> <<>>, away_score |-> <<>>,
              is_live |-> FALSE, is_final |-> FALSE, is_upcoming |-> FALSE,
              is_halftime |-> FALSE, is_period_break |-> FALSE]

\* _extract_game_details_common: the scores and the state flags of the record;
\* any exception on the way gives None
extract_game_details_common(game_event) ==
    LET home_score == extract_score(game_event.home_team)
        away_score == extract_score(game_event.away_team)
    IN IF home_score.raises \/ away_score.raises THEN NoDetails
       ELSE [extracted |-> TRUE,
             home_score |-> home_score.text, away_score |-> away_score.text,
             is_live |-> game_event.state = "in",
             is_final |-> game_event.state = "post",
             is_upcoming |-> \/ game_event.state = "pre"
                             \/ Lower(game_event.name)
                                  \in {"scheduled", "pre-game", "status_scheduled"},
             is_halftime |-> \/ game_event.state = "halftime"
                             \/ game_event.name = "STATUS_HALFTIME",
             is_period_break |-> game_event.name = "STATUS_END_PERIOD"]

\* ------------------------------------------------------------ specifications
Managers == AllModes
NoneNumber == [x \in AllModes |-> -1]

\* what the upstream feed can return to each manager
BaseFeed == [m \in Managers |-> {NotDue}]

\* Configuration of the ledger specification: NRL alone is enabled and shows
\* recent and upcoming, with dynamic duration switched on.
LedgerConfig ==
    [is_enabled |-> TRUE,
     enabled |-> [l \in Leagues |-> l = "nrl"],
     show |-> [m \in AllModes |-> m[2] = "recent"],
     live_priority |-> [l \in Leagues |-> FALSE],
     dynamic_enabled |-> [l \in Leagues |-> IF l = "nrl" THEN "true" ELSE "unset"],
     dynamic_mode_enabled |-> [m \in AllModes |-> "unset"],
     game_display_duration |-> [m \in Managers |-> GameDur],
     display_durations |-> NoneNumber,
     live_game_duration |-> [l \in Leagues |-> -1],
     mode_durations |-> NoneNumber,
     show_favorite_teams_only |-> [l \in Leagues |-> FALSE],
     favorite_teams |-> [l \in Leagues |-> {}],
     display_duration |-> DisplayDuration,
     host_modes |-> {<<"nrl", "recent">>},
     candidates |-> {<<>>},
     event |-> NoEvent,
     track_host |-> FALSE,
     track_calls |-> FALSE,
     track_stale |-> FALSE,
     track_shown |-> FALSE,
     force_clear |-> {FALSE},
     faults |-> {"none"},
     outcomes |-> [m \in Managers |-> {"ok"}],
     at_once |-> {},
     ticks |-> {1},
     times |-> Epoch..(Epoch + MaxTime),
     feed |-> [BaseFeed EXCEPT
                 ![<<"nrl", "recent">>] = {NotDue, Fetched(GamesOf(<<"B">>)),
                                           Fetched(GamesOf(<<"A", "B">>)),
                                           Fetched(GamesOf(<<"B", "C">>))}]]

\* last_op tells a display call, with its mode and result, from any other step.
\* seen_mode and seen_time are the host's side of the story: the mode and time
\* of its most recent display(display_mode) call, kept when the configuration
\* asks for it; a display call then carries in arg the mode of the call before
\* it and the seconds since.
NoOp == [op |-> "other", mode |-> NoMode, result |-> FALSE, arg |-> <<>>, value |-> <<>>,
         seen_mode |-> NoMode, seen_time |-> 0, cleared |-> FALSE, fetched |-> {},
         drawn |-> FALSE, fault |-> "none", raised |-> FALSE, failed |-> {},
         no_data |-> {}, shown |-> <<>>]
Quiet == [NoOp EXCEPT !.seen_mode = last_op.seen_mode, !.seen_time = last_op.seen_time,
                      !.shown = last_op.shown]
Op(name, mode, result) == [Quiet EXCEPT !.op = name, !.mode = mode, !.result = result]

\* __init__: empty managers, empty ledger, cursor on the first mode
InitWith(cfg) ==
    /\ now = Epoch
    /\ config = cfg
    /\ games_list = [m \in Managers |-> <<>>]
    /\ current_game_index = [m \in Managers |-> 0]
    /\ current_game = [m \in Managers |-> NoGame]
    /\ last_game_switch = [m \in Managers |-> 0]
    /\ game_update_timestamps = [m \in Managers |-> EmptyDict]
    /\ current_mode_index = 0
    /\ last_mode_switch = 0
    /\ dynamic_cycle_seen_modes = {}
    /\ dynamic_mode_to_manager_key = EmptyDict
    /\ dynamic_manager_progress = EmptyDict
    /\ dynamic_managers_completed = {}
    /\ dynamic_cycle_complete = FALSE
    /\ single_game_manager_start_times = EmptyDict
    /\ game_id_start_times = EmptyDict
    /\ display_mode_to_managers = EmptyDict
    /\ last_display_mode = NoMode
    /\ last_display_mode_time = 0
    /\ sticky_manager_per_mode = EmptyDict
    /\ sticky_manager_start_time = EmptyDict
    /\ mode_start_time = EmptyDict
    /\ current_display_league = None
    /\ current_display_mode_type = None
    /\ last_op = NoOp
    /\ threads = EmptyDict
    /\ main = [pc |-> "idle", tick |-> 0, i |-> 0, join_start |-> 0]
    /\ last_update = [m \in Managers |-> 0]
    /\ fetch_times = [m \in Managers |-> <<>>]

Init == InitWith(LedgerConfig)

\* the clock advances by one of the configured steps, within the configured times
Tick ==
    \E d \in config.ticks :
        /\ now + d \in config.times
        /\ Commit([St EXCEPT !.now = now + d], Quiet)

\* the host calls display(display_mode)
Display ==
    \E display_mode \in config.host_modes, force_clear \in config.force_clear,
       fault \in config.faults :
        \E fetch \in config.feed[display_mode] :
            LET R == display([St EXCEPT !.force_clear = force_clear, !.fault = fault],
                             display_mode, fetch)
            IN Commit(R.S, [Op("display", display_mode, R.result) EXCEPT
                               !.seen_mode = IF config.track_host THEN display_mode ELSE @,
                               !.seen_time = IF config.track_host THEN now ELSE @,
                               !.arg = IF config.track_host /\ last_op.seen_mode # NoMode
                                       THEN <<last_op.seen_mode, now - last_op.seen_time>>
                                       ELSE @])

\* the host calls display() and the plugin cycles its own modes
DisplayInternal ==
    \E fault \in config.faults :
        LET R == display([St EXCEPT !.fault = fault], NoMode, NotDue)
        IN Commit(R.S, Op("display_internal", Modes(R.S)[R.S.current_mode_index + 1],
                          R.result))

\* update(): every manager of an enabled league is updated
UpdateAll(S, f) ==
    LET U(T, m) == IF LeagueEnabled(T.config, m[1]) THEN ManagerUpdate(T, m, f[m]) ELSE T
    IN U(U(U(U(U(U(S, <<"nrl", "live">>), <<"nrl", "recent">>), <<"nrl", "upcoming">>),
             <<"wnba", "live">>), <<"wnba", "recent">>), <<"wnba", "upcoming">>)

Update ==
    /\ config.is_enabled
    /\ \E f1 \in config.feed[<<"nrl", "live">>], f2 \in config.feed[<<"nrl", "recent">>],
          f3 \in config.feed[<<"nrl", "upcoming">>], f4 \in config.feed[<<"wnba", "live">>],
          f5 \in config.feed[<<"wnba", "recent">>], f6 \in config.feed[<<"wnba", "upcoming">>] :
          LET f == [m \in Managers |->
                      CASE m = <<"nrl", "live">> -> f1 [] m = <<"nrl", "recent">> -> f2
                        [] m = <<"nrl", "upcoming">> -> f3 [] m = <<"wnba", "live">> -> f4
                        [] m = <<"wnba", "recent">> -> f5 [] OTHER -> f6]
          IN Commit(UpdateAll(St, f),
                    IF config.track_calls THEN [Quiet EXCEPT !.op = "update"] ELSE Quiet)

IsCycleComplete ==
    LET R == is_cycle_complete(St)
    IN Commit(R.S, IF config.track_calls THEN Op("is_cycle_complete", NoMode, R.result)
                   ELSE Quiet)

ResetCycleState == Commit(reset_cycle_state(St), Op("reset_cycle_state", NoMode, FALSE))

GetCycleDuration ==
    \E display_mode \in config.host_modes :
        \E fetch \in config.feed[<<CycleLeague(St, display_mode), display_mode[2]>>] :
            LET R == get_cycle_duration(St, display_mode, fetch)
            IN Commit(R.S, IF config.track_calls
                           THEN [Op("get_cycle_duration", display_mode, FALSE) EXCEPT
                                    !.value = R.result]
                           ELSE Quiet)

\* the scheduler narrows a candidate list for a display mode
ApplyStickyManagerLogic ==
    \E display_mode \in config.host_modes :
        \E managers_to_try \in config.candidates :
            LET R == apply_sticky_manager_logic(St, display_mode, managers_to_try)
            IN Commit(R.S, [Quiet EXCEPT !.op = "apply_sticky", !.mode = display_mode,
                                         !.arg = managers_to_try, !.value = R.result,
                                         !.result = display_mode \in
                                                      DOMAIN St.sticky_manager_per_mode])

Next ==
    \/ Tick
    \/ Display
    \/ Update
    \/ IsCycleComplete
    \/ ResetCycleState
    \/ GetCycleDuration

Spec == Init /\ [][Next]_vars

\* Sticky specification: both leagues enabled, one NRL recent game, and the
\* scheduler may narrow lists of the two recent managers.
StickyConfig ==
    [LedgerConfig EXCEPT
       !.enabled = [l \in Leagues |-> TRUE],
       !.dynamic_enabled = [l \in Leagues |-> "true"],
       !.candidates = {<< <<"wnba", "recent">> >>,
                       << <<"nrl", "recent">>, <<"wnba", "recent">> >>,
                       << <<"wnba", "recent">>, <<"nrl", "recent">> >>},
       !.feed = [BaseFeed EXCEPT
                   ![<<"nrl", "recent">>] = {NotDue, Fetched(GamesOf(<<"A">>))}]]

InitSticky == InitWith(StickyConfig)

NextSticky ==
    \/ Tick
    \/ Display
    \/ Update
    \/ ApplyStickyManagerLogic

SpecSticky == InitSticky /\ [][NextSticky]_vars

\* _try_manager_display(manager, display_mode, mode_type) for a manager of
\* an enabled league and of the mode type of the display mode
TryManagerDisplay ==
    \E display_mode \in config.host_modes :
        \E manager \in {m \in Managers : m[2] = display_mode[2] /\ LeagueEnabled(config, m[1])} :
            \E fetch \in config.feed[manager] :
                LET T == try_manager_display(St, manager, display_mode, display_mode[2], fetch)
                IN Commit(Caught(T.S),
                          [Quiet EXCEPT !.op = "try_manager_display", !.mode = display_mode,
                                        !.arg = manager, !.result = T.success])

\* The sticky configuration with recent games in both leagues.
StickyKeepConfig ==
    [StickyConfig EXCEPT
       !.times = Epoch..(Epoch + 1),
       !.feed = [BaseFeed EXCEPT
                   ![<<"nrl", "recent">>] = {NotDue, Fetched(GamesOf(<<"A">>))},
                   ![<<"wnba", "recent">>] = {NotDue, Fetched(GamesOf(<<"B">>))}]]

InitStickyKeep == InitWith(StickyKeepConfig)

NextStickyKeep ==
    \/ Tick
    \/ Display
    \/ Update
    \/ ApplyStickyManagerLogic
    \/ TryManagerDisplay

SpecStickyKeep == InitStickyKeep /\ [][NextStickyKeep]_vars

\* NRL recent games with a mode-level duration of DisplayDuration seconds and
\* dynamic duration enabled; the manager holds two games or none.
ModeDurConfig ==
    [LedgerConfig EXCEPT
       !.mode_durations = [m \in AllModes |->
                              IF m = <<"nrl", "recent">> THEN DisplayDuration ELSE -1],
       !.track_calls = TRUE,
       !.feed = [BaseFeed EXCEPT
                   ![<<"nrl", "recent">>] = {NotDue, Fetched(<<>>),
                                            Fetched(GamesOf(<<"A", "B">>))}]]

InitModeDur == InitWith(ModeDurConfig)

NextModeDur ==
    \/ Tick
    \/ Display
    \/ Update

SpecModeDur == InitModeDur /\ [][NextModeDur]_vars

\* The recent or the upcoming manager of NRL with two or three games, shown
\* by the host over several per-game durations.
GameRotConfig(mode_type) ==
    [LedgerConfig EXCEPT
       !.show = [m \in AllModes |-> m[2] = mode_type],
       !.host_modes = {<<"nrl", mode_type>>},
       !.dynamic_enabled = [l \in Leagues |-> "unset"],
       !.track_calls = TRUE,
       !.track_shown = TRUE,
       !.feed = [BaseFeed EXCEPT
                   ![<<"nrl", mode_type>>] = {NotDue, Fetched(GamesOf(<<"A", "B">>)),
                                              Fetched(GamesOf(<<"A", "B", "C">>))}]]

InitGameRot == \E mode_type \in {"recent", "upcoming"} : InitWith(GameRotConfig(mode_type))

NextGameRot ==
    \/ Tick
    \/ Display
    \/ Update

SpecGameRot == InitGameRot /\ [][NextGameRot]_vars

\* Cycle specification: NRL shows recent and upcoming, one game each; the
\* clock steps by the per-game duration or by the new-cycle threshold, and the
\* host's display calls are remembered.
CycleConfig ==
    [LedgerConfig EXCEPT
       !.show = [m \in AllModes |-> m[2] # "live"],
       !.host_modes = {<<"nrl", "recent">>, <<"nrl", "upcoming">>},
       !.track_host = TRUE,
       !.ticks = {GameDur, NEW_CYCLE_THRESHOLD},
       !.times = {Epoch + GameDur, Epoch + GameDur + NEW_CYCLE_THRESHOLD,
                  Epoch + 2 * GameDur + NEW_CYCLE_THRESHOLD},
       !.feed = [BaseFeed EXCEPT
                   ![<<"nrl", "recent">>] = {NotDue, Fetched(GamesOf(<<"A">>))},
                   ![<<"nrl", "upcoming">>] = {NotDue, Fetched(GamesOf(<<"B">>))}]]

InitCycle == InitWith(CycleConfig)

NextCycle ==
    \/ Tick
    \/ Display
    \/ Update

SpecCycle == InitCycle /\ [][NextCycle]_vars

\* the host asks whether live content should preempt the rotation
HasLiveContent ==
    Commit(St, [Quiet EXCEPT !.op = "has_live_content", !.result = has_live_content(St)])

\* Configuration of the rotation specification: both leagues are enabled with
\* live priority, and the plugin cycles nrl_recent, nrl_live, wnba_live itself.
\* WNBA follows a favorite team without restricting its lists to it.
OtherGame(id) == MkGame(id, FALSE, "", 0, "", "NYL", "LVA", StartOf(id))
FinalGame(id) == MkGame(id, TRUE, "final", 4, "0:00", "MEL", "SYD", StartOf(id))
RotConfig ==
    [LedgerConfig EXCEPT
       !.enabled = [l \in Leagues |-> TRUE],
       !.show = [m \in AllModes |-> m \in {<<"nrl", "live">>, <<"nrl", "recent">>,
                                          <<"wnba", "live">>}],
       !.live_priority = [l \in Leagues |-> TRUE],
       !.dynamic_enabled = [l \in Leagues |-> "unset"],
       !.favorite_teams = [l \in Leagues |-> IF l = "wnba" THEN {"MEL"} ELSE {}],
       !.host_modes = {NoMode},
       !.feed = [BaseFeed EXCEPT
                   ![<<"nrl", "live">>] = {NotDue, Fetched(<<>>), Fetched(GamesOf(<<"A">>)),
                                           Fetched(<<FinalGame("A")>>)},
                   ![<<"nrl", "recent">>] = {NotDue, Fetched(GamesOf(<<"C">>))},
                   ![<<"wnba", "live">>] = {NotDue, Fetched(<<>>), Fetched(GamesOf(<<"B">>)),
                                            Fetched(<<OtherGame("B")>>)}]]

InitRot == InitWith(RotConfig)

NextRot ==
    \/ Tick
    \/ DisplayInternal
    \/ Update
    \/ HasLiveContent

SpecRot == InitRot /\ [][NextRot]_vars

\* The rotation configuration over two display durations, so that the cursor
\* goes through all three modes and round to the first.
CursorConfig ==
    [RotConfig EXCEPT
       !.times = {Epoch, Epoch + DisplayDuration, Epoch + 2 * DisplayDuration},
       !.ticks = {DisplayDuration}]

InitCursor == InitWith(CursorConfig)

NextCursor ==
    \/ Tick
    \/ DisplayInternal
    \/ Update
    \/ HasLiveContent

SpecCursor == InitCursor /\ [][NextCursor]_vars

\* Configuration of the call-tracking specification: NRL shows recent and
\* upcoming, the host passes either value of force_clear, the recording or
\* the evaluation of a display call may fail, and each step records whether
\* the display was cleared, which managers fetched and whether one rendered.
IOConfig ==
    [LedgerConfig EXCEPT
       !.show = [m \in AllModes |-> m[2] # "live"],
       !.host_modes = {<<"nrl", "recent">>, <<"nrl", "upcoming">>},
       !.dynamic_enabled = [l \in Leagues |-> "unset"],
       !.track_calls = TRUE,
       !.force_clear = {FALSE, TRUE},
       !.faults = {"none", "record", "evaluate"},
       !.times = Epoch..(Epoch + 1),
       !.feed = [BaseFeed EXCEPT
                   ![<<"nrl", "recent">>] = {NotDue, Fetched(<<>>), Fetched(GamesOf(<<"A">>))},
                   ![<<"nrl", "upcoming">>] = {NotDue, Fetched(GamesOf(<<"B">>))}]]

InitIO == InitWith(IOConfig)

NextIO ==
    \/ Tick
    \/ Display
    \/ Update

SpecIO == InitIO /\ [][NextIO]_vars

\* Configurations of the duration specification: both leagues show recent
\* games with different per-game durations, and each league's
\* recent_mode_duration is either left out or configured.
DurConfig(nrl_mode_duration, wnba_mode_duration) ==
    [LedgerConfig EXCEPT
       !.enabled = [l \in Leagues |-> TRUE],
       !.dynamic_enabled = [l \in Leagues |-> "unset"],
       !.game_display_duration =
           [m \in Managers |-> IF m[1] = "nrl" THEN GameDur ELSE GameDur + 1],
       !.mode_durations = [m \in AllModes |->
                              IF m = <<"nrl", "recent">> THEN nrl_mode_duration
                              ELSE IF m = <<"wnba", "recent">> THEN wnba_mode_duration
                              ELSE -1],
       !.host_modes = {<<"nrl", "recent">>, <<"wnba", "recent">>},
       !.track_calls = TRUE,
       !.times = Epoch..(Epoch + 1),
       !.feed = [BaseFeed EXCEPT
                   ![<<"nrl", "recent">>] = {NotDue, Fetched(<<>>),
                                            Fetched(GamesOf(<<"A", "B">>))},
                   ![<<"wnba", "recent">>] = {NotDue, Fetched(<<>>),
                                             Fetched(GamesOf(<<"C">>))}]]

InitDur ==
    \E nrl_mode_duration \in {-1, DisplayDuration + 4},
       wnba_mode_duration \in {-1, DisplayDuration + 6} :
        InitWith(DurConfig(nrl_mode_duration, wnba_mode_duration))

NextDur ==
    \/ Tick
    \/ Display
    \/ Update
    \/ GetCycleDuration

SpecDur == InitDur /\ [][NextDur]_vars

\* ------------------------------------------------------------ update fan-out
\* update() runs every manager's update() on a thread of its own and joins
\* the threads with a timeout.  A thread id is the number of the update()
\* call and the manager; call number 0 is the main thread's own call of
\* manager.update() from _ensure_manager_updated.  A manager's update() is
\* three steps: the interval check, the assignment of last_update followed by
\* the start of the fetch, and the end of the fetch.
TaskOrder == << <<"nrl", "live">>, <<"nrl", "recent">>, <<"nrl", "upcoming">>,
                <<"wnba", "live">>, <<"wnba", "recent">>, <<"wnba", "upcoming">> >>
update_tasks(cfg) == FilterSeq(TaskOrder, {m \in Managers : LeagueEnabled(cfg, m[1])}, 1)

NewThread == [pc |-> "start", current_time |-> 0, outcome |-> "ok"]
LastTwo(s) == IF Len(s) <= 2 THEN s ELSE SubSeq(s, Len(s) - 1, Len(s))
FanUnchanged ==
    UNCHANGED <<config, current_game_index, current_game, last_game_switch,
                game_update_timestamps, cursorVars,
                ledgerVars, stickyVars, contextVars>>

\* thread.join(timeout=25.0) returns when the thread has ended or the timeout
\* has passed
JoinReadyNoTimeout(id) == threads[id].pc = "done"
JoinReady(id) == JoinReadyNoTimeout(id) \/ now - main.join_start >= JOIN_TIMEOUT

\* the clock advances by the join timeout
TickFan ==
    /\ now + JOIN_TIMEOUT \in config.times
    /\ now' = now + JOIN_TIMEOUT
    /\ last_op' = NoOp
    /\ UNCHANGED <<games_list, fanVars>>
    /\ FanUnchanged

\* update(): one thread per task is started
StartUpdate ==
    /\ config.is_enabled
    /\ main.pc = "idle"
    /\ main.tick < MaxUpdates
    /\ update_tasks(config) # <<>>
    /\ LET started == {main.tick + 1} \X SeqToSet(update_tasks(config))
       IN threads' = [id \in DOMAIN threads \cup started |->
                        IF id \in started THEN NewThread ELSE threads[id]]
    /\ main' = [pc |-> "join", tick |-> main.tick + 1, i |-> 1, join_start |-> now]
    /\ last_op' = NoOp
    /\ UNCHANGED <<now, games_list, last_update, fetch_times>>
    /\ FanUnchanged

\* the join loop of update(): the next thread is joined, or update() returns
\* and leaves the threads that are still alive behind
JoinThread ==
    /\ main.pc = "join"
    /\ JoinReady(<<main.tick, update_tasks(config)[main.i]>>)
    /\ IF main.i = Len(update_tasks(config))
       THEN /\ main' = [main EXCEPT !.pc = "idle", !.i = 0]
            /\ threads' = [id \in {x \in DOMAIN threads : threads[x].pc # "done"} |->
                             threads[id]]
            /\ last_op' = [NoOp EXCEPT !.op = "update", !.arg = main.tick]
       ELSE /\ main' = [main EXCEPT !.i = @ + 1, !.join_start = now]
            /\ threads' = threads
            /\ last_op' = NoOp
    /\ UNCHANGED <<now, games_list, last_update, fetch_times>>
    /\ FanUnchanged

\* the end of a manager.update() call on thread id.  A fan-out thread that
\* update() is still waiting for stays to be joined, one that missed its join
\* just ends; the main thread's own call returns to display().  result tells
\* whether update() was still waiting, value how the call ended.
EndCall(id, outcome) ==
    LET waited == id[1] # 0 /\ main.pc = "join" /\ main.tick = id[1]
    IN /\ threads' = IF waited THEN [threads EXCEPT ![id] = [@ EXCEPT !.pc = "done"]]
                     ELSE Del(threads, id)
       /\ main' = IF id[1] = 0 THEN [main EXCEPT !.pc = "idle"] ELSE main
       /\ last_op' = [NoOp EXCEPT !.op = "manager_update", !.mode = id[2], !.arg = id[1],
                                  !.result = waited, !.value = outcome]

\* manager.update() of a manager that answers at once: the whole call is one
\* step of its thread
ManagerUpdateAtOnce(id) ==
    /\ threads[id].pc = "start"
    /\ id[2] \in config.at_once
    /\ EndCall(id, IF now - last_update[id[2]] < UpdateInterval THEN "limited" ELSE "ok")
    /\ IF now - last_update[id[2]] < UpdateInterval
       THEN UNCHANGED <<last_update, fetch_times>>
       ELSE /\ last_update' = [last_update EXCEPT ![id[2]] = now]
            /\ fetch_times' = [fetch_times EXCEPT ![id[2]] = LastTwo(Append(@, now))]
    /\ UNCHANGED <<now, games_list>>
    /\ FanUnchanged

\* manager.update(): current_time is read and compared with last_update
ManagerUpdateCheck(id) ==
    /\ threads[id].pc = "start"
    /\ id[2] \notin config.at_once
    /\ IF now - last_update[id[2]] < UpdateInterval
       THEN EndCall(id, "limited")
       ELSE /\ threads' = [threads EXCEPT ![id] = [@ EXCEPT !.pc = "checked",
                                                            !.current_time = now]]
            /\ main' = main
            /\ last_op' = NoOp
    /\ UNCHANGED <<now, games_list, last_update, fetch_times>>
    /\ FanUnchanged

\* manager.update(): last_update is assigned and the fetch starts; the fetch
\* will return data, raise, or never return
ManagerUpdateFetch(id) ==
    /\ threads[id].pc = "checked"
    /\ last_update' = [last_update EXCEPT ![id[2]] = threads[id].current_time]
    /\ fetch_times' = [fetch_times EXCEPT ![id[2]] = LastTwo(Append(@, now))]
    /\ \E outcome \in config.outcomes[id[2]] :
          threads' = [threads EXCEPT ![id] =
                        [@ EXCEPT !.pc = IF outcome = "hang" THEN "hung" ELSE "fetch",
                                  !.outcome = outcome]]
    /\ last_op' = NoOp
    /\ UNCHANGED <<now, games_list, main>>
    /\ FanUnchanged

\* manager.update(): the fetch ends; its games are stored, or its exception is
\* caught by run_update_with_error_handling (by _ensure_manager_updated on the
\* main thread)
ManagerUpdateEnd(id) ==
    /\ threads[id].pc = "fetch"
    /\ EndCall(id, threads[id].outcome)
    /\ IF threads[id].outcome = "ok"
       THEN \E f \in {x \in config.feed[id[2]] : x.due /\ x.ok} :
               games_list' = [games_list EXCEPT ![id[2]] = f.games]
       ELSE UNCHANGED games_list
    /\ UNCHANGED <<now, last_update, fetch_times>>
    /\ FanUnchanged

\* the next step of a thread
ThreadStep(id) ==
    \/ ManagerUpdateAtOnce(id)
    \/ ManagerUpdateCheck(id)
    \/ ManagerUpdateFetch(id)
    \/ ManagerUpdateEnd(id)

\* display(display_mode) on the main thread: _ensure_manager_updated finds the
\* manager stale and calls its update()
EnsureManagerUpdated ==
    /\ config.is_enabled
    /\ main.pc = "idle"
    /\ \E m \in config.host_modes :
          /\ now - last_update[m] >= UpdateInterval
          /\ threads' = Put(threads, <<0, m>>, NewThread)
    /\ main' = [main EXCEPT !.pc = "ensure"]
    /\ last_op' = NoOp
    /\ UNCHANGED <<now, games_list, last_update, fetch_times>>
    /\ FanUnchanged

\* Configuration of the fan-out specification: NRL alone is enabled, the host
\* displays nrl_recent, and the fetch of the recent manager may fail or hang.
FanConfig ==
    [LedgerConfig EXCEPT
       !.times = {Epoch + k * JOIN_TIMEOUT : k \in 0..FanTicks},
       !.outcomes = [m \in Managers |-> IF m = <<"nrl", "recent">>
                                        THEN {"ok", "raise", "hang"} ELSE {"ok"}],
       !.at_once = {<<"nrl", "live">>, <<"nrl", "upcoming">>},
       !.feed = [m \in Managers |-> {NotDue, Fetched(GamesOf(<<"A">>))}]]

InitFan == InitWith(FanConfig)

NextFan ==
    \/ TickFan
    \/ StartUpdate
    \/ JoinThread
    \/ \E id \in DOMAIN threads : ManagerUpdateAtOnce(id)
    \/ \E id \in DOMAIN threads : ManagerUpdateCheck(id)
    \/ \E id \in DOMAIN threads : ManagerUpdateFetch(id)
    \/ \E id \in DOMAIN threads : ManagerUpdateEnd(id)
    \/ EnsureManagerUpdated

SpecFan == InitFan /\ [][NextFan]_vars

\* the host asks which live modes have content
GetLiveModes ==
    Commit(St, [Quiet EXCEPT !.op = "get_live_modes", !.value = get_live_modes(St)])

\* The rotation configuration with every choice of the leagues that have
\* live priority and with WNBA enabled or not; the host asks for the live
\* signal and for the live modes.
LiveModesConfig(priority, wnba_enabled) ==
    [RotConfig EXCEPT
       !.enabled = [l \in Leagues |-> l = "nrl" \/ wnba_enabled],
       !.live_priority = priority,
       !.times = Epoch..(Epoch + 1)]

InitLiveModes ==
    \E priority \in [Leagues -> BOOLEAN], wnba_enabled \in BOOLEAN :
        InitWith(LiveModesConfig(priority, wnba_enabled))

NextLiveModes ==
    \/ Tick
    \/ Update
    \/ HasLiveContent
    \/ GetLiveModes

SpecLiveModes == InitLiveModes /\ [][NextLiveModes]_vars

\* Configurations of the robustness specification: NRL shows recent and live
\* games with live priority, its managers hold no game, one game or two, and
\* dynamic duration is enabled or left out.  The host uses every public
\* operation.
SafeConfig(dynamic) ==
    [LedgerConfig EXCEPT
       !.show = [m \in AllModes |-> m[2] # "upcoming"],
       !.live_priority = [l \in Leagues |-> TRUE],
       !.dynamic_enabled = [l \in Leagues |-> dynamic],
       !.host_modes = {<<"nrl", "recent">>},
       !.track_calls = TRUE,
       !.times = Epoch..(Epoch + 1),
       !.feed = [BaseFeed EXCEPT
                   ![<<"nrl", "recent">>] = {NotDue, Fetched(<<>>), Fetched(GamesOf(<<"B">>)),
                                            Fetched(GamesOf(<<"A", "B">>))},
                   ![<<"nrl", "live">>] = {NotDue, Fetched(GamesOf(<<"C">>))}]]

InitSafe == \E dynamic \in {"true", "unset"} : InitWith(SafeConfig(dynamic))

NextSafe ==
    \/ Tick
    \/ Display
    \/ Update
    \/ IsCycleComplete
    \/ HasLiveContent
    \/ GetLiveModes
    \/ GetCycleDuration

SpecSafe == InitSafe /\ [][NextSafe]_vars

\* _record_dynamic_progress is called for the manager of a display mode: the
\* call _try_manager_display makes once the manager has rendered.  A refresh
\* thread that update() left running may have replaced the manager's list
\* since the render, so the list can be empty by the time of the call.
RecordDynamicProgress ==
    \E display_mode \in config.host_modes :
        Commit(Caught(record_dynamic_progress(St, display_mode, display_mode, display_mode)),
               [Quiet EXCEPT !.op = "record_dynamic_progress", !.mode = display_mode,
                             !.result = dynamic_feature_enabled(St)])

\* Configuration of the empty-manager specification: the feed of nrl_recent
\* returns one game or none.
EmptyConfig ==
    [LedgerConfig EXCEPT
       !.feed = [BaseFeed EXCEPT
                   ![<<"nrl", "recent">>] = {NotDue, Fetched(<<>>),
                                             Fetched(GamesOf(<<"A">>))}]]

InitEmpty == InitWith(EmptyConfig)

NextEmpty ==
    \/ Tick
    \/ Display
    \/ Update
    \/ RecordDynamicProgress

SpecEmpty == InitEmpty /\ [][NextEmpty]_vars

\* lines 3151-3160: the league is written into the game record, and a status
\* state inferred from the mode type when the record has none
TagForScroll(game, league, mt) ==
    [game EXCEPT !.league = league,
                 !.status = IF @ = None
                            THEN CASE mt = "live" -> "in" [] mt = "recent" -> "post"
                                   [] OTHER -> "pre"
                            ELSE @]

\* _get_games_from_manager copies the list, not the records: the records the
\* collection writes to are the manager's own, current_game among them
TagManagerGames(S, m) ==
    [S EXCEPT !.games_list[m] = [i \in 1..Len(@) |-> TagForScroll(@[i], m[1], m[2])],
              !.current_game[m] =
                  IF \E i \in 1..Len(S.games_list[m]) : S.games_list[m][i] = @
                  THEN TagForScroll(@, m[1], m[2]) ELSE @]

\* _collect_games_for_scroll: the games of every enabled league, of one mode
\* type or (mode_type = None, Vegas) of all three
collect_games_for_scroll(S, mode_type) ==
    LET Collected(m) == /\ LeagueEnabled(S.config, m[1])
                        /\ (mode_type = None \/ m[2] = mode_type)
                        /\ get_manager_for_mode(S, m) # NoMgr
        C(T, m) == IF Collected(m) THEN TagManagerGames(T, m) ELSE T
    IN C(C(C(C(C(C(S, <<"nrl", "live">>), <<"nrl", "recent">>), <<"nrl", "upcoming">>),
             <<"wnba", "live">>), <<"wnba", "recent">>), <<"wnba", "upcoming">>)

\* get_vegas_content: an empty scroll cache triggers the content generation
get_vegas_content(S, cache_empty) ==
    IF cache_empty THEN collect_games_for_scroll(S, None) ELSE S

\* the host asks for the Vegas scroll content
GetVegasContent ==
    \E cache_empty \in BOOLEAN :
        Commit(get_vegas_content(St, cache_empty),
               [Quiet EXCEPT !.op = "get_vegas_content", !.result = cache_empty])

\* Configuration of the scroll specification: NRL shows recent games, one or
\* two of them, and the host uses the scheduler's operations.
VegasConfig ==
    [LedgerConfig EXCEPT
       !.track_calls = TRUE,
       !.times = Epoch..(Epoch + 1),
       !.feed = [BaseFeed EXCEPT
                   ![<<"nrl", "recent">>] = {NotDue, Fetched(GamesOf(<<"A">>)),
                                             Fetched(GamesOf(<<"A", "B">>))}]]

InitVegas == InitWith(VegasConfig)

NextVegas ==
    \/ Tick
    \/ Display
    \/ Update
    \/ GetCycleDuration
    \/ HasLiveContent
    \/ GetLiveModes
    \/ GetVegasContent

SpecVegas == InitVegas /\ [][NextVegas]_vars

\* the extractor turns the configured event into a game record
ExtractGameDetails ==
    Commit(St, [Quiet EXCEPT !.op = "extract_game_details",
                             !.value = extract_game_details_common(config.event)])

\* The wire shapes of a competitor's score: missing, None, integers, floats,
\* numeric and decimal strings, dicts with value or displayValue, JSON text of
\* a dict or a list, and text with digits in it.
TeamWith(score) == PyDict(<< <<"score", score>> >>)
ScoreShapes ==
    {PyDict(<<>>), TeamWith(PyNone),
     TeamWith(PyInt(0)), TeamWith(PyInt(75)), TeamWith(PyInt(-5)),
     TeamWith(PyFloat(750)), TeamWith(PyFloat(757)), TeamWith(PyFloat(-5)),
     TeamWith(PyNan), TeamWith(PyInf),
     TeamWith(PyStr(<<"7", "5">>)), TeamWith(PyStr(<<"7", "5", ".", "7">>)),
     TeamWith(PyStr(<<" ", "7", "5", " ">>)), TeamWith(PyStr(<<"-", "5">>)),
     TeamWith(PyStr(<<>>)), TeamWith(PyStr(<<" ">>)), TeamWith(PyStr(<<"a", "b">>)),
     TeamWith(PyStr(<<"p", "t", "s", " ", "7", "5", " ", "9">>)),
     TeamWith(PyStr(<<"inf">>)),
     TeamWith(PyDict(<< <<"value", PyInt(75)>> >>)),
     TeamWith(PyDict(<< <<"displayValue", PyStr(<<"8", "2">>)>> >>)),
     TeamWith(PyDict(<< <<"value", PyInt(0)>>, <<"displayValue", PyStr(<<"8", "2">>)>> >>)),
     TeamWith(PyDict(<< <<"value", PyNone>> >>)),
     TeamWith(PyDict(<<>>)),
     TeamWith(PyList(<< <<"0", PyInt(75)>> >>)),
     TeamWith(PyStr(<<"{", "\"value\"", ":", " ", "7", "5", "}">>)),
     TeamWith(PyStr(<<"{", "'value'", ":", " ", "7", "5", "}">>)),
     TeamWith(PyStr(<<"[", "7", "5", "]">>)), TeamWith(PyStr(<<"[", "]">>)),
     TeamWith(PyStr(<<"{", "a", "b">>))}
AwayShapes == {PyDict(<<>>), TeamWith(PyInt(12)), TeamWith(PyStr(<<"1", "2", ".", "0">>))}
\* the status types of the feed: state and name as they come together
StatusTypes == {<<"pre", "STATUS_SCHEDULED">>, <<"in", "STATUS_IN_PROGRESS">>,
                <<"in", "STATUS_HALFTIME">>, <<"in", "STATUS_END_PERIOD">>,
                <<"post", "STATUS_FINAL">>, <<"post", "STATUS_POSTPONED">>}

ExtractConfig(game_event) ==
    [LedgerConfig EXCEPT !.event = game_event, !.times = Epoch..(Epoch + 1)]

InitExtract ==
    \E type \in StatusTypes, home \in ScoreShapes, away \in AwayShapes :
        InitWith(ExtractConfig(Event(type[1], type[2], home, away)))

NextExtract ==
    \/ Tick
    \/ ExtractGameDetails

SpecExtract == InitExtract /\ [][NextExtract]_vars

\* Configuration of the refresh specification: NRL shows live and recent
\* games; a fetch of either manager brings two games, brings no data or raises.
RefreshConfig ==
    [LedgerConfig EXCEPT
       !.show = [m \in AllModes |-> m[2] # "upcoming"],
       !.host_modes = {<<"nrl", "live">>, <<"nrl", "recent">>},
       !.track_calls = TRUE,
       !.times = Epoch..(Epoch + GameDur),
       !.ticks = {GameDur},
       !.feed = [BaseFeed EXCEPT
                   ![<<"nrl", "live">>] = {NotDue, NoData, Failing,
                                           Fetched(GamesOf(<<"A", "B">>))},
                   ![<<"nrl", "recent">>] = {NotDue, NoData, Failing,
                                             Fetched(GamesOf(<<"B", "C">>))}]]

InitRefresh == InitWith(RefreshConfig)

NextRefresh ==
    \/ Tick
    \/ Update
    \/ Display

SpecRefresh == InitRefresh /\ [][NextRefresh]_vars

\* live games of one league over a feed outage longer than the stale
\* time-out: the feed lists the games A and B, B alone, or games that ended
StaleConfig ==
    [LedgerConfig EXCEPT
       !.show = [m \in AllModes |-> m[2] = "live"],
       !.host_modes = {<<"nrl", "live">>},
       !.track_calls = TRUE,
       !.track_stale = TRUE,
       !.times = {Epoch, Epoch + GameDur, Epoch + STALE_GAME_TIMEOUT + 1,
                  Epoch + GameDur + STALE_GAME_TIMEOUT + 1},
       !.ticks = {GameDur, STALE_GAME_TIMEOUT + 1},
       !.feed = [BaseFeed EXCEPT
                   ![<<"nrl", "live">>] =
                       {NotDue, NoData,
                        Fetched(GamesOf(<<"A", "B">>)),
                        Fetched(GamesOf(<<"B">>)),
                        Fetched(<<[PlainGame("A") EXCEPT !.is_final = TRUE], PlainGame("B")>>),
                        Fetched(<<PlainGame("A"),
                                  [PlainGame("C") EXCEPT !.period = 4, !.clock = "0:00"]>>)}]]

InitStale == InitWith(StaleConfig)

NextStale ==
    \/ Tick
    \/ Update
    \/ Display

SpecStale == InitStale /\ [][NextStale]_vars

\* update() of manager m on the worker thread while display() runs on the main
\* thread.  The blocks under the manager's _games_lock are the steps of the
\* worker; what it fetched and the time it read when it started are its own.
Worker(m) == <<1, m>>

\* update() up to the end of the loop over the fetched events: the time is
\* read, the events are fetched and filtered, and a live game that passed the
\* filter is stamped
UpdateFetch(m) ==
    /\ Worker(m) \notin DOMAIN threads
    /\ \E fetch \in {f \in config.feed[m] : f.due /\ f.ok} :
          LET Inc(g) == LiveInclude(St, m, g)
              games == IF m[2] = "live" THEN SelectSeq(fetch.games, Inc) ELSE fetch.games
          IN /\ CommitState(IF m[2] = "live" THEN LiveStamp(St, m, games) ELSE St, Quiet)
             /\ threads' = Put(threads, Worker(m),
                               [pc |-> IF m[2] = "live" THEN "stale" ELSE "store",
                                current_time |-> now, outcome |-> "ok", games |-> games])
    /\ UNCHANGED <<main, last_update, fetch_times>>

\* sports.py 2627-2628: with self._games_lock: self._detect_stale_games(self.live_games)
LiveUpdateDetectStale(m) ==
    /\ Worker(m) \in DOMAIN threads
    /\ threads[Worker(m)].pc = "stale"
    /\ CommitState(detect_stale_games(St, m), Quiet)
    /\ threads' = [threads EXCEPT ![Worker(m)].pc = "store"]
    /\ UNCHANGED <<main, last_update, fetch_times>>

\* the block that stores the list: lines 2678-2747 of SportsLive.update, after
\* which the rotation is still to come, and lines 1491-1530 of
\* SportsUpcoming.update, which ends the call
UpdateStore(m) ==
    /\ Worker(m) \in DOMAIN threads
    /\ threads[Worker(m)].pc = "store"
    /\ LET w == threads[Worker(m)]
           T == RecentUpdate([St EXCEPT !.now = w.current_time], m, Fetched(w.games))
       IN IF m[2] = "live"
          THEN /\ CommitState(LiveStore(St, m, w.games, w.current_time), Quiet)
               /\ threads' = [threads EXCEPT ![Worker(m)].pc = "switch"]
          ELSE /\ CommitState([T EXCEPT !.now = now],
                              [Quiet EXCEPT !.op = "manager_update", !.mode = m])
               /\ threads' = Del(threads, Worker(m))
    /\ UNCHANGED <<main, last_update, fetch_times>>

\* lines 2749-2760 of SportsLive.update: the rotation, which ends the call
LiveUpdateSwitch(m) ==
    /\ Worker(m) \in DOMAIN threads
    /\ threads[Worker(m)].pc = "switch"
    /\ CommitState(LiveRotateAt(St, m, threads[Worker(m)].current_time),
                   [Quiet EXCEPT !.op = "manager_update", !.mode = m])
    /\ threads' = Del(threads, Worker(m))
    /\ UNCHANGED <<main, last_update, fetch_times>>

\* The live and the upcoming manager of NRL over a feed outage, each updated
\* by the worker thread and shown by the main thread.
InterleaveConfig ==
    [StaleConfig EXCEPT
       !.show = [m \in AllModes |-> m[2] # "recent"],
       !.host_modes = {<<"nrl", "live">>, <<"nrl", "upcoming">>},
       !.dynamic_enabled = [l \in Leagues |-> "unset"],
       !.times = {Epoch, Epoch + STALE_GAME_TIMEOUT + 1},
       !.ticks = {STALE_GAME_TIMEOUT + 1},
       !.feed = [BaseFeed EXCEPT
                   ![<<"nrl", "live">>] =
                       {NotDue, Fetched(GamesOf(<<"A", "B">>)), Fetched(GamesOf(<<"B">>)),
                        Fetched(GamesOf(<<"B", "C">>))},
                   ![<<"nrl", "upcoming">>] =
                       {NotDue, Fetched(GamesOf(<<"A", "B">>))}]]

InitInterleave == InitWith(InterleaveConfig)

NextInterleave ==
    \/ Tick
    \/ Display
    \/ \E m \in {<<"nrl", "live">>, <<"nrl", "upcoming">>} : UpdateFetch(m)
    \/ LiveUpdateDetectStale(<<"nrl", "live">>)
    \/ \E m \in {<<"nrl", "live">>, <<"nrl", "upcoming">>} : UpdateStore(m)
    \/ LiveUpdateSwitch(<<"nrl", "live">>)

SpecInterleave == InitInterleave /\ [][NextInterleave]_vars

\* the per-game duration of a league and mode type is asked for, with the
\* manager or without it
GetGameDuration ==
    \E mode \in AllModes, with_manager \in BOOLEAN :
        Commit(St, [Quiet EXCEPT
                      !.op = "get_game_duration", !.mode = mode, !.result = with_manager,
                      !.value = get_game_duration(St, mode[1], mode[2],
                                                  IF with_manager THEN mode ELSE NoMgr)])

\* Configurations of the per-game duration specification: each source of the
\* duration is defined or left out, and the sources carry different values.
GameDurConfig(manager_durations, mode_duration, live_duration) ==
    [LedgerConfig EXCEPT
       !.game_display_duration = [m \in Managers |-> manager_durations[m[2]]],
       !.display_durations = [m \in AllModes |-> mode_duration],
       !.live_game_duration = [l \in Leagues |-> live_duration],
       !.times = Epoch..(Epoch + 1)]

InitGameDur ==
    \E manager_durations \in [ModeTypes -> {-1, GameDur}],
       mode_duration \in {-1, GameDur + 1}, live_duration \in {-1, GameDur + 2} :
        InitWith(GameDurConfig(manager_durations, mode_duration, live_duration))

NextGameDur ==
    \/ Tick
    \/ GetGameDuration

SpecGameDur == InitGameDur /\ [][NextGameDur]_vars

\* the candidate managers of a mode type are resolved
ResolveManagersForMode ==
    \E mode_type \in ModeTypes :
        \E f1 \in config.feed[<<"nrl", "live">>], f2 \in config.feed[<<"wnba", "live">>] :
            LET f == [m \in Managers |-> IF m = <<"nrl", "live">> THEN f1
                                         ELSE IF m = <<"wnba", "live">> THEN f2 ELSE NotDue]
                R == resolve_managers_for_mode(St, mode_type, f)
            IN Commit(R.S, [Quiet EXCEPT !.op = "resolve_managers_for_mode",
                                         !.arg = mode_type, !.value = R.result])

\* Configurations of the live specification: both leagues show live games,
\* NRL with live priority and WNBA with or without it; a refresh of a live
\* manager finds no game, one game, or fails.
LiveConfig(wnba_live_priority) ==
    [LedgerConfig EXCEPT
       !.enabled = [l \in Leagues |-> TRUE],
       !.show = [m \in AllModes |-> TRUE],
       !.live_priority = [l \in Leagues |-> l = "nrl" \/ wnba_live_priority],
       !.dynamic_enabled = [l \in Leagues |-> "unset"],
       !.track_calls = TRUE,
       !.times = Epoch..(Epoch + 1),
       !.feed = [BaseFeed EXCEPT
                   ![<<"nrl", "live">>] = {NotDue, Failing, Fetched(<<>>),
                                           Fetched(GamesOf(<<"A">>))},
                   ![<<"wnba", "live">>] = {NotDue, Failing, Fetched(<<>>),
                                            Fetched(GamesOf(<<"B">>))}]]

InitLive == \E wnba_live_priority \in BOOLEAN : InitWith(LiveConfig(wnba_live_priority))

NextLive ==
    \/ Tick
    \/ ResolveManagersForMode

SpecLive == InitLive /\ [][NextLive]_vars

\* the league list of a mode type is asked for
GetEnabledLeaguesForMode ==
    \E mode_type \in ModeTypes :
        Commit(St, [Quiet EXCEPT !.op = "get_enabled_leagues_for_mode",
                                 !.arg = mode_type,
                                 !.value = get_enabled_leagues_for_mode(St, mode_type)])

\* Configurations of the league specification: every combination of the
\* leagues' enabled flags and show_<mode> flags.
LeagueConfig(enabled, show) ==
    [LedgerConfig EXCEPT !.enabled = enabled, !.show = show,
                         !.times = Epoch..(Epoch + 1)]

InitLeague ==
    \E enabled \in [Leagues -> BOOLEAN], show \in [AllModes -> BOOLEAN] :
        InitWith(LeagueConfig(enabled, show))

NextLeague ==
    \/ Tick
    \/ GetEnabledLeaguesForMode

SpecLeague == InitLeague /\ [][NextLeague]_vars

\* ------------------------------------------------------------------- claims
\* C1: whenever a display mode has a sticky manager S and
\* _apply_sticky_manager_logic is called for it with S among the candidates,
\* the call returns exactly [S], whether or not S's key has completed.
C1_StickyExclusive ==
    [][(/\ last_op'.op = "apply_sticky"
        /\ last_op'.mode \in DOMAIN sticky_manager_per_mode
        /\ sticky_manager_per_mode[last_op'.mode] \in SeqToSet(last_op'.arg))
       => last_op'.value = <<sticky_manager_per_mode[last_op'.mode]>>]_vars

\* a call with two candidates, the sticky one second, came back narrowed
C1_Witness ==
    /\ last_op.op = "apply_sticky"
    /\ Len(last_op.arg) = 2
    /\ last_op.mode \in DOMAIN sticky_manager_per_mode
    /\ last_op.arg[2] = sticky_manager_per_mode[last_op.mode]
    /\ last_op.value = <<last_op.arg[2]>>
    /\ build_manager_key(last_op.mode, last_op.arg[2]) \in dynamic_managers_completed

\* the key of a granular display mode: the mode and the manager of the same name
KeyOf(mode) == build_manager_key(mode, mode)
NrlRecent == <<"nrl", "recent">>
RecentKey == KeyOf(NrlRecent)
\* a display(display_mode) call that rendered, so that progress was recorded
\* and the cycle evaluated for that mode
Rendered(op) == op.op = "display" /\ op.result
CompletedIds(key) == Get(dynamic_manager_progress, key, {})
FirstSeenIds(key) == DOMAIN Get(game_id_start_times, key, EmptyDict)

\* C2: the sticky record of a display mode is removed in the very step that
\* adds its manager's key to the completed-managers set.
C2_StickyReleasedOnCompletion ==
    [][\A dm \in DOMAIN sticky_manager_per_mode :
          LET k == build_manager_key(dm, sticky_manager_per_mode[dm])
          IN (k \notin dynamic_managers_completed /\ k \in dynamic_managers_completed')
             => dm \notin DOMAIN sticky_manager_per_mode']_vars

\* C3: a key in the completed-managers set stays in it across every step
\* (update, display, is_cycle_complete, get_cycle_duration, the clock) other
\* than reset_cycle_state, whatever happens to the game list.
C3_CompletionMonotone ==
    [][last_op'.op # "reset_cycle_state"
       => dynamic_managers_completed \subseteq dynamic_managers_completed']_vars

\* the key is still complete after an evaluation of a list that has changed
\* under it: one of the current games has not been shown for its full duration
C3_Witness ==
    /\ Rendered(last_op)
    /\ RecentKey \in dynamic_managers_completed
    /\ Len(games_list[NrlRecent]) > 1
    /\ ~(Ids(games_list[NrlRecent]) \subseteq CompletedIds(RecentKey))

\* C4 as claimed: after a progress evaluation of a manager with more than one
\* game, the key is complete iff the current ids are all completed ids.
C4_SubsetIff ==
    (Rendered(last_op) /\ Len(games_list[last_op.mode]) > 1)
    => (KeyOf(last_op.mode) \in dynamic_managers_completed
        <=> Ids(games_list[last_op.mode]) \subseteq CompletedIds(KeyOf(last_op.mode)))

\* C4 amended: a progress evaluation of a manager with more than one game
\* leaves the key complete when the current ids are all completed ids, and
\* adds the key to the completed set only then; a key completed earlier stays.
C4_SubsetCompletes ==
    [][(Rendered(last_op') /\ Len(games_list'[last_op'.mode]) > 1)
       => LET k == KeyOf(last_op'.mode)
              subset == Ids(games_list'[last_op'.mode])
                          \subseteq Get(dynamic_manager_progress', k, {})
          IN /\ subset => k \in dynamic_managers_completed'
             /\ (k \notin dynamic_managers_completed /\ k \in dynamic_managers_completed')
                => subset]_vars

\* both games of the list were shown for their duration and the key completed
C4_Witness ==
    /\ Rendered(last_op)
    /\ Len(games_list[NrlRecent]) > 1
    /\ Ids(games_list[NrlRecent]) \subseteq CompletedIds(RecentKey)
    /\ RecentKey \in dynamic_managers_completed

C7_NewCycleResets ==
    [][(/\ Rendered(last_op')
        /\ last_op.seen_mode # NoMode
        /\ last_op.seen_mode # last_op'.mode
        /\ now' - last_op.seen_time >= NEW_CYCLE_THRESHOLD
        /\ KeyOf(last_op'.mode) \in dynamic_managers_completed)
       => /\ KeyOf(last_op'.mode) \notin dynamic_managers_completed'
          /\ Get(dynamic_manager_progress', KeyOf(last_op'.mode), {}) = {}]_vars

\* C8: after an evaluation the first-seen map and the completed-game-id set
\* of the key hold only ids of the manager's current game list.
C8_NoStaleIds ==
    Rendered(last_op)
    => /\ FirstSeenIds(KeyOf(last_op.mode)) \subseteq Ids(games_list[last_op.mode])
       /\ CompletedIds(KeyOf(last_op.mode)) \subseteq Ids(games_list[last_op.mode])

\* C9: with the plugin enabled, has_live_content() returns true whenever an
\* enabled league with live priority and no favorite teams has a live manager
\* holding a game that is neither final nor really over.
C9_LiveSignal ==
    (/\ last_op.op = "has_live_content"
     /\ config.is_enabled
     /\ \E l \in Leagues :
           /\ config.enabled[l]
           /\ config.live_priority[l]
           /\ config.favorite_teams[l] = {}
           /\ \E i \in 1..Len(games_list[<<l, "live">>]) :
                 /\ ~games_list[<<l, "live">>][i].is_final
                 /\ ~is_game_really_over(games_list[<<l, "live">>][i]))
    => last_op.result

\* the NRL live manager holds a live game while the WNBA one holds none
C9_Witness ==
    /\ last_op.op = "has_live_content"
    /\ last_op.result
    /\ games_list[<<"nrl", "live">>] # <<>>
    /\ games_list[<<"wnba", "live">>] = <<>>

\* C10: after a display() call made while has_live_content() is true, the
\* cursor is on the live mode of a league that has live content.  (The call
\* changes no live list, so the signal is the same before and after it.)
C10_CursorOnLiveLeague ==
    (last_op.op = "display_internal" /\ has_live_content(St))
    => /\ CurrentMode(St)[2] = "live"
       /\ LeagueHasLiveContent(St, CurrentMode(St)[1])

\* C11: a display(display_mode) call whose manager has no games returns
\* false and does not invoke display_manager.clear().
C11_NoClearOnFalse ==
    (last_op.op = "display" /\ games_list[last_op.mode] = <<>>)
    => (~last_op.result /\ ~last_op.cleared)

\* C12: with no mode-level duration configured for the mode, a
\* get_cycle_duration call for a manager holding N > 0 games returns N times
\* the per-game duration of that league and mode.
C12_DynamicEstimate ==
    (/\ last_op.op = "get_cycle_duration"
     /\ ~IsSet(config.mode_durations[last_op.mode])
     /\ games_list[last_op.mode] # <<>>)
    => last_op.value = Len(games_list[last_op.mode])
                         * config.game_display_duration[last_op.mode]

\* C13: with no mode-level duration configured for the mode and no games in
\* its manager, get_cycle_duration returns the default of 45 seconds.
C13_DefaultDuration ==
    (/\ last_op.op = "get_cycle_duration"
     /\ config.is_enabled
     /\ ~IsSet(config.mode_durations[last_op.mode])
     /\ games_list[last_op.mode] = <<>>)
    => last_op.value = DEFAULT_CYCLE_DURATION

\* C14: a mode-level duration configured for the mode's league is what
\* get_cycle_duration returns, whatever the game count and the league shown last.
C14_ModeLevelOverride ==
    (/\ last_op.op = "get_cycle_duration"
     /\ IsSet(config.mode_durations[last_op.mode]))
    => last_op.value = config.mode_durations[last_op.mode]

C16_BookkeepingDoesNotAbort ==
    (last_op.op = "display" /\ last_op.drawn) => last_op.result

\* C17: while update() joins, there is exactly one thread of this call for
\* each manager of every enabled league; a join whose timeout has passed can
\* return, so update() returns though a thread never ends; and whatever the
\* other threads did (raised, hung, ended), every thread that has neither
\* ended nor hung can take its next step, before or after update() returned.
C17_UpdateFanOut ==
    /\ main.pc = "join"
       => /\ {id \in DOMAIN threads : id[1] = main.tick}
               = {main.tick} \X {m \in Managers : config.enabled[m[1]]}
          /\ now - main.join_start >= JOIN_TIMEOUT => ENABLED JoinThread
    /\ \A id \in DOMAIN threads :
          threads[id].pc \notin {"done", "hung"} => ENABLED ThreadStep(id)

\* update() has returned and left behind a thread whose fetch never returns,
\* while the other managers of the call were updated
C17_Witness ==
    /\ last_op.op = "update"
    /\ main.pc = "idle"
    /\ <<last_op.arg, <<"nrl", "recent">> >> \in DOMAIN threads
    /\ threads[<<last_op.arg, <<"nrl", "recent">> >>].pc = "hung"
    /\ fetch_times[<<"nrl", "live">>] # <<>>
    /\ fetch_times[<<"nrl", "upcoming">>] # <<>>

\* C18: for each manager, the starts of two successive fetches are at least
\* the update interval apart.
C18_RateLimit ==
    \A m \in Managers :
        Len(fetch_times[m]) = 2 => fetch_times[m][2] - fetch_times[m][1] >= UpdateInterval

\* C19: no display call makes a manager update or fetch.
C19_DisplayNoFetch ==
    last_op.op = "display" => last_op.fetched = {}

\* C20: _get_enabled_leagues_for_mode(mode) returns exactly the leagues that
\* are enabled and whose show_<mode> flag is true, each once, in ascending
\* priority, leagues of equal priority in registration order.
C20_LeagueOrdering ==
    last_op.op = "get_enabled_leagues_for_mode"
    => LET r == last_op.value
           Registered(l) == CHOOSE i \in 1..Len(LeagueOrder) : LeagueOrder[i] = l
       IN /\ SeqToSet(r) = {l \in Leagues : /\ config.enabled[l]
                                             /\ config.show[<<l, last_op.arg>>]}
          /\ \A i, j \in 1..Len(r) :
                i < j => /\ r[i] # r[j]
                         /\ RegistryPriority(r[i]) <= RegistryPriority(r[j])
                         /\ RegistryPriority(r[i]) = RegistryPriority(r[j])
                              => Registered(r[i]) < Registered(r[j])

\* both leagues pass the gates of one mode type while one of them is
\* filtered out of another
C20_Witness ==
    /\ last_op.op = "get_enabled_leagues_for_mode"
    /\ last_op.value = <<"nrl", "wnba">>
    /\ \E m \in ModeTypes : config.enabled["wnba"] /\ ~config.show[<<"wnba", m>>]

\* C21: the list _resolve_managers_for_mode returns for live holds no
\* manager without live games.
C21_LiveCandidatesHaveGames ==
    (last_op.op = "resolve_managers_for_mode" /\ last_op.arg = "live")
    => \A i \in 1..Len(last_op.value) : has_live_games_for_manager(St, last_op.value[i])

\* C22: _get_game_duration returns the manager's game_display_duration when
\* a manager is given and has one, else the league's display_durations entry
\* of the mode, else (live only) the league's live_game_duration, else 15.
C22_GameDurationPriority ==
    last_op.op = "get_game_duration"
    => LET m == last_op.mode
       IN last_op.value =
            IF last_op.result /\ config.game_display_duration[m] >= 0
            THEN config.game_display_duration[m]
            ELSE IF config.display_durations[m] >= 0 THEN config.display_durations[m]
            ELSE IF m[2] = "live" /\ config.live_game_duration[m[1]] >= 0
            THEN config.live_game_duration[m[1]]
            ELSE 15

\* the manager has a duration and the league configures another one for the
\* mode: the manager's is returned
C22_Witness ==
    /\ last_op.op = "get_game_duration"
    /\ last_op.result
    /\ config.game_display_duration[last_op.mode] >= 0
    /\ config.display_durations[last_op.mode] >= 0
    /\ config.display_durations[last_op.mode] # config.game_display_duration[last_op.mode]
    /\ last_op.value = config.game_display_duration[last_op.mode]

\* C26: when _apply_sticky_manager_logic is called for a display mode whose
\* recorded sticky manager is not among the candidates, the sticky record and
\* its start time are removed and the candidates come back unchanged.
C26_StickyDisappearing ==
    [][(/\ last_op'.op = "apply_sticky"
        /\ last_op'.mode \in DOMAIN sticky_manager_per_mode
        /\ sticky_manager_per_mode[last_op'.mode] \notin SeqToSet(last_op'.arg))
       => /\ last_op'.mode \notin DOMAIN sticky_manager_per_mode'
          /\ last_op'.mode \notin DOMAIN sticky_manager_start_time'
          /\ last_op'.value = last_op'.arg]_vars

\* a call for a display mode that had a sticky record came back with the
\* candidates as given, and the record and its start time are gone
C26_Witness ==
    /\ last_op.op = "apply_sticky"
    /\ last_op.result
    /\ last_op.value = last_op.arg
    /\ Len(last_op.arg) = 1
    /\ last_op.mode \notin DOMAIN sticky_manager_per_mode
    /\ last_op.mode \notin DOMAIN sticky_manager_start_time

C23_SchedulerReadOnly ==
    [][\A m \in Managers :
          m \notin last_op'.fetched => games_list'[m] = games_list[m]]_vars

\* C24: whatever the wire shape of a competitor's score, the record is
\* extracted and its home_score and away_score are the decimal text of a
\* non-negative integer: digits only.
C24_ScoreCoercion ==
    last_op.op = "extract_game_details"
    => /\ last_op.value.extracted
       /\ IsDigitRun(last_op.value.home_score)
       /\ IsDigitRun(last_op.value.away_score)

\* C25: an extracted record has exactly one of is_upcoming, is_live,
\* is_halftime and is_final set.
C25_OneGameState ==
    (last_op.op = "extract_game_details" /\ last_op.value.extracted)
    => Cardinality({f \in {"is_upcoming", "is_live", "is_halftime", "is_final"} :
                      last_op.value[f]}) = 1

C29_FailOpenLive ==
    (last_op.op = "resolve_managers_for_mode" /\ last_op.arg = "live")
    => \A i \in 1..Len(last_op.value) : last_op.value[i] \notin last_op.failed

\* C31: after an update() of a live manager that processed fetched events,
\* the manager's list holds no final game and no game that is really over,
\* and its current game is None or one of the games of the list.
C31_LiveListExcludesFinished ==
    \A m \in Managers :
        (/\ m[2] = "live"
         /\ last_op.op = "update"
         /\ m \in last_op.fetched \ (last_op.no_data \cup last_op.failed))
        => /\ \A i \in 1..Len(games_list[m]) :
                 /\ ~games_list[m][i].is_final
                 /\ ~is_game_really_over(games_list[m][i])
           /\ \/ current_game[m] = NoGame
              \/ \E i \in 1..Len(games_list[m]) : games_list[m][i] = current_game[m]

\* C32 as stated: a call of get_cycle_duration leaves the rotation cursor, the
\* sticky records, the dwell-time ledger, the completed sets and every
\* manager's game list and current game as they were.
C32_CycleDurationChangesNothing ==
    [][last_op'.op = "get_cycle_duration"
       => /\ cursorVars' = cursorVars
          /\ stickyVars' = stickyVars
          /\ ledgerVars' = ledgerVars
          /\ games_list' = games_list
          /\ current_game' = current_game]_vars

\* C32, amended: a call of get_cycle_duration leaves the rotation cursor, the
\* sticky records, the dwell-time ledger and the completed sets as they were,
\* and the game list, the current game and its index of every manager that
\* the call did not refresh; only a manager whose update interval has passed
\* is refreshed, as by its update().
C32_CycleDurationAdvisory ==
    [][last_op'.op = "get_cycle_duration"
       => /\ cursorVars' = cursorVars
          /\ stickyVars' = stickyVars
          /\ ledgerVars' = ledgerVars
          /\ contextVars' = contextVars
          /\ \A m \in Managers \ last_op'.fetched :
                /\ games_list'[m] = games_list[m]
                /\ current_game'[m] = current_game[m]
                /\ current_game_index'[m] = current_game_index[m]
                /\ last_game_switch'[m] = last_game_switch[m]]_vars

\* a call of get_cycle_duration refreshed a manager while a sticky manager
\* and dwell times were on record
C32_Witness ==
    /\ last_op.op = "get_cycle_duration"
    /\ last_op.fetched # {}
    /\ \E m \in last_op.fetched : Len(games_list[m]) = 2
    /\ DOMAIN sticky_manager_per_mode # {}
    /\ DOMAIN dynamic_manager_progress # {}

\* C33: the list of modes is never empty and the rotation cursor is always an
\* index into it; a display() call without a display mode leaves the cursor
\* where it is, or moves it to the index of a live mode while there is live
\* content, or advances it by one modulo the number of modes, the last only
\* when display_duration seconds (a positive number) have passed since the
\* last switch.
C33_RotationCursor ==
    /\ [](/\ Len(Modes(St)) > 0
          /\ current_mode_index \in 0..(Len(Modes(St)) - 1))
    /\ [][last_op'.op = "display_internal"
          => \/ current_mode_index' = current_mode_index
             \/ /\ has_live_content(St)
                /\ Modes(St)[current_mode_index' + 1][2] = "live"
             \/ /\ current_mode_index' = (current_mode_index + 1) % Len(Modes(St))
                /\ now - last_mode_switch >= config.display_duration]_vars

\* a display() call has just advanced the cursor from the last mode round to
\* the first one, which is no live mode
C33_Witness ==
    /\ last_op.op = "display_internal"
    /\ current_mode_index = 0
    /\ last_mode_switch = now
    /\ Len(Modes(St)) = 3
    /\ Modes(St)[1][2] # "live"

\* C34: has_live_content() is true exactly when get_live_modes() is not
\* empty, and get_live_modes() holds L_live exactly for the enabled leagues L
\* with live priority whose live manager holds a game that is neither final
\* nor really over and that, when the league has favorite teams, involves one
\* of them.
C34_LiveModesAgree ==
    /\ has_live_content(St) <=> get_live_modes(St) # <<>>
    /\ \A i \in 1..Len(get_live_modes(St)) : get_live_modes(St)[i][2] = "live"
    /\ \A l \in Leagues :
          (<<l, "live">> \in SeqToSet(get_live_modes(St)))
          <=> /\ config.enabled[l]
              /\ config.live_priority[l]
              /\ \E i \in 1..Len(games_list[<<l, "live">>]) :
                    LET g == games_list[<<l, "live">>][i]
                    IN /\ ~g.is_final
                       /\ ~is_game_really_over(g)
                       /\ config.favorite_teams[l] # {}
                          => \/ g.home_abbr \in config.favorite_teams[l]
                             \/ g.away_abbr \in config.favorite_teams[l]

\* get_live_modes() has returned nrl_live alone while the WNBA live manager,
\* enabled with live priority, holds a live game without a favorite team
C34_Witness ==
    /\ last_op.op = "get_live_modes"
    /\ last_op.value = << <<"nrl", "live">> >>
    /\ config.enabled["wnba"]
    /\ config.live_priority["wnba"]
    /\ games_list[<<"wnba", "live">>] # <<>>
    /\ has_live_content(St)

\* C35: while update() runs on the worker thread and display() on the main
\* thread, a manager whose list is not empty has a current_game_index that
\* is an index of the list and a current game that is one of its games, and
\* a manager whose list is empty when its update() ends has no current game.
C35_CursorConsistent ==
    \A m \in Managers :
        /\ games_list[m] # <<>>
           => /\ current_game_index[m] \in 0..(Len(games_list[m]) - 1)
              /\ \E i \in 1..Len(games_list[m]) : games_list[m][i] = current_game[m]
        /\ (last_op.op = "manager_update" /\ last_op.mode = m /\ games_list[m] = <<>>)
           => current_game[m] = NoGame

\* C36: after reset_cycle_state() the completed-managers set, the sets of
\* completed game ids, the first-seen times of the games, the start times of
\* the single-game managers, the map from display mode to the manager keys
\* used for it and the sticky-manager records are empty, and the cycle is not
\* complete.
C36_ResetLeavesNothing ==
    last_op.op = "reset_cycle_state"
    => /\ dynamic_managers_completed = {}
       /\ DOMAIN dynamic_manager_progress = {}
       /\ DOMAIN game_id_start_times = {}
       /\ DOMAIN single_game_manager_start_times = {}
       /\ DOMAIN display_mode_to_managers = {}
       /\ DOMAIN sticky_manager_per_mode = {}
       /\ DOMAIN sticky_manager_start_time = {}
       /\ ~dynamic_cycle_complete

\* C37: a successful _try_manager_display leaves the sticky manager of every
\* display mode that has one as it is, and no step replaces the sticky
\* manager of a display mode by another one: before the record changes it is
\* removed.
C37_StickyNotOverwritten ==
    [][/\ \A d \in DOMAIN sticky_manager_per_mode \cap DOMAIN sticky_manager_per_mode' :
             sticky_manager_per_mode'[d] = sticky_manager_per_mode[d]
       /\ (last_op'.op = "try_manager_display" /\ last_op'.result)
          => \A d \in DOMAIN sticky_manager_per_mode :
                /\ d \in DOMAIN sticky_manager_per_mode'
                /\ sticky_manager_per_mode'[d] = sticky_manager_per_mode[d]]_vars

\* _try_manager_display has succeeded with a manager that is not the sticky
\* manager of the display mode
C37_Witness ==
    /\ last_op.op = "try_manager_display"
    /\ last_op.result
    /\ last_op.mode \in DOMAIN sticky_manager_per_mode
    /\ sticky_manager_per_mode[last_op.mode] # last_op.arg

C39_GameRotation ==
    /\ [][\A m \in config.host_modes :
            LET n == Len(games_list[m])
            IN (/\ last_op'.op = "display" /\ last_op'.mode = m /\ last_op'.drawn
                /\ n > 1
                /\ games_list'[m] = games_list[m])
               => IF now - last_game_switch[m] >= config.game_display_duration[m]
                  THEN /\ current_game_index'[m] = (current_game_index[m] + 1) % n
                       /\ current_game'[m] = games_list[m][current_game_index'[m] + 1]
                       /\ last_game_switch'[m] = now
                  ELSE /\ current_game_index'[m] = current_game_index[m]
                       /\ current_game'[m] = current_game[m]
                       /\ last_game_switch'[m] = last_game_switch[m]]_vars
    /\ [](\A i, j \in 1..Len(last_op.shown) :
             i # j => last_op.shown[i] # last_op.shown[j])

\* the manager holds three games, and the host has seen B, C and A, each
\* once, in the order of the list
C39_Witness ==
    /\ last_op.op = "display"
    /\ last_op.shown = <<"B", "C", "A">>
    /\ \E m \in config.host_modes :
          /\ Len(games_list[m]) = 3
          /\ current_game_index[m] = 0
          /\ last_game_switch[m] = now
====
